---- MODULE Spec2Model ----
(***************************************************************************)
(* Gallery traversal and deduplication of the wix-gallery-downloader       *)
(* scripts: download_sardine_homepage.py (scan of the output directory,    *)
(* warm-up, locate / classify / save / advance loop),                      *)
(* download_sardine_direct.py and download_sardine_interactive.py.         *)
(*                                                                         *)
(* The page, the network and the operator are the environment: what they   *)
(* answer is chosen with \E in each action.  A photo of the gallery is     *)
(* named by its position 1..numPhotos, which is also its image id.         *)
(***************************************************************************)
EXTENDS Integers, Sequences, FiniteSets, TLC

\* ------------------------------------------------------------------ bounds
MaxPhotos == 4
MaxRuns == 2
MaxFaults == 1
MaxPerList == 2
MaxCands == 3

\* ------------------------------------------------------- program constants
MAX_DUPLICATE_STREAK == 1
DirectDuplicateLimit == 3
InteractiveDuplicateLimit == 5
DefaultExpectedTotal == 50
LoopLimit == 50
max_images == 100
WarmupPresses == 3
NoImageLimit == 3

Variants == {"homepage", "direct", "interactive"}
ArrowStatuses == {"enabled", "disabled", "missing"}
DownloadOutcomes == {"ok", "http_error", "cut", "interrupt"}

VARIABLES
    variant,                \* which script is run
    numPhotos,              \* the gallery: photos 1..numPhotos
    wraps,                  \* the carousel goes from the last photo to the first
    badSrc,                 \* photos whose address does not match the pattern
    disk,                   \* the output directory: a set of files
    run,                    \* runs started so far
    pc,                     \* "idle", "warmup", "loop", "done"
    ended,                  \* how the last run ended
    pos,                    \* the photo the gallery shows
    existing_images,        \* ids the startup scan found
    highest_sequence,       \* the scan's high-water-mark
    expected_total,
    downloaded,
    session_seen_ids,
    consecutive_duplicates,
    i,                      \* iterations of the loop executed in this run
    no_image_count,
    use_keyboard,
    diskAtStart,            \* history: the directory when the run started
    saves,                  \* history: completed saves per id, all runs
    fetches,                \* history: fetch attempts per id, this run
    last,                   \* history: what the last iteration did
    ideal,                  \* history: the page and the network never failed
    failed,                 \* history: ids whose latest download did not complete
    faults,                 \* history: how often the environment misbehaved
    ctl                     \* one call of go_to_next_image, step by step

vars == << variant, numPhotos, wraps, badSrc, disk, run, pc, ended, pos,
           existing_images, highest_sequence, expected_total, downloaded,
           session_seen_ids, consecutive_duplicates, i, no_image_count,
           use_keyboard, diskAtStart, saves, fetches, last, ideal, failed,
           faults, ctl >>

Ids == 1 .. MaxPhotos

\* ---------------------------------------------------------------- helpers

SetMax(S) == IF S = {} THEN 0 ELSE CHOOSE m \in S : \A x \in S : x <= m

\* The extension is part of the canonical address of the photo.
ExtOf(id) == IF id % 2 = 1 THEN "jpg" ELSE "png"

\* f"sardine_{seq_number:03d}_{img_id}.{ext}"
FileName(seq, id) == [seq |-> seq, id |-> id, ext |-> ExtOf(id)]

NameOf(f) == [seq |-> f.seq, id |-> f.id, ext |-> f.ext]

\* A faulty variant of the write: the new file takes the place of the
\* directory's content.
WriteFileAlone(d, name, complete) ==
    { [seq |-> name.seq, id |-> name.id, ext |-> name.ext,
       complete |-> complete] }

\* open(filename, 'wb') creates or truncates the file of that name.
WriteFile(d, name, complete) ==
    { f \in d : NameOf(f) # name }
        \cup { [seq |-> name.seq, id |-> name.id, ext |-> name.ext,
                complete |-> complete] }

\* download_image_from_url: what it leaves in the directory.
DiskAfterDownload(d, name, outcome) ==
    CASE outcome = "ok"         -> WriteFile(d, name, TRUE)
      [] outcome = "http_error" -> d
      [] outcome = "cut"        -> WriteFile(d, name, FALSE)
      [] outcome = "interrupt"  -> WriteFile(d, name, FALSE)

\* Faulty variants of the scan and of the on-disk test: a scan that finds
\* no id, a scan that reports no high-water-mark, a test that never finds
\* an id on disk.  The properties below do not hold of them.
ExistingIdsNone(d) == {}
HighestSeqZero(d) == 0
OnDiskNever(id, existing) == FALSE

\* discover_existing_images: the ids of the files the pattern matches.
ExistingIds(d) == { f.id : f \in d }

\* discover_existing_images: the highest sequence number, 0 for none.
HighestSeq(d) == SetMax({ f.seq : f \in d })

\* img_id in existing_images
OnDisk(id, existing) == id \in existing

\* seq_number = highest_sequence + downloaded + 1
SeqNumber(highest, n) == highest + n + 1

\* The gallery's answer to one navigation action.
HasNext(p) == p < numPhotos \/ wraps
NextPos(p) == IF p < numPhotos THEN p + 1 ELSE IF wraps THEN 1 ELSE p
Press(p, honoured) == IF honoured THEN NextPos(p) ELSE p

\* Presses k, k+1, ... of a series, from photo p: where the gallery ends
\* up, and whether every press moved it to the next photo.
RECURSIVE PressAll(_, _, _)
PressAll(p, hs, k) ==
    IF k > Len(hs) THEN p ELSE PressAll(Press(p, hs[k]), hs, k + 1)

RECURSIVE AllMove(_, _, _)
AllMove(p, hs, k) ==
    IF k > Len(hs) THEN TRUE
    ELSE hs[k] /\ HasNext(p) /\ AllMove(NextPos(p), hs, k + 1)

\* The next control of a gallery that behaves: disabled on the last photo.
ArrowTruthful(status, p) ==
    status = (IF HasNext(p) THEN "enabled" ELSE "disabled")

NoNav == [called |-> FALSE, status |-> "none", moved |-> FALSE,
          reason |-> "none", attempts |-> << >>, focus |-> "none"]

Attempt(m, threw) == [m |-> m, threw |-> threw]

\* A faulty variant of go_to_next_image that does not look at the status of
\* the control before it presses the key.
go_to_next_image_blind(status, focusOK, keyT, clickT, scriptT) ==
    [called |-> TRUE, status |-> status, moved |-> ~keyT,
     reason |-> IF keyT THEN "unreachable" ELSE "keyboard",
     attempts |-> << Attempt("key", keyT) >>,
     focus |-> IF focusOK THEN "clicked" ELSE "failed"]

\* A faulty variant of go_to_next_image that clicks the control before it
\* presses the key.
go_to_next_image_click_first(status, focusOK, keyT, clickT, scriptT) ==
    [called |-> TRUE, status |-> status,
     moved |-> ~clickT \/ ~keyT,
     reason |-> IF ~clickT THEN "button"
                ELSE IF ~keyT THEN "keyboard" ELSE "unreachable",
     attempts |-> IF ~clickT THEN << Attempt("click", FALSE) >>
                  ELSE << Attempt("click", TRUE), Attempt("key", keyT) >>,
     focus |-> IF focusOK THEN "clicked" ELSE "failed"]

\* go_to_next_image: status is what get_next_arrow_state returned, focusOK
\* whether focus_gallery clicked, the others whether each activation throws.
go_to_next_image(status, focusOK, keyThrows, clickThrows, scriptThrows) ==
    LET focus == IF focusOK THEN "clicked" ELSE "failed" IN
    IF status # "enabled"
    THEN [called |-> TRUE, status |-> status, moved |-> FALSE,
          reason |-> status, attempts |-> << >>, focus |-> "none"]
    ELSE IF ~keyThrows
    THEN [called |-> TRUE, status |-> status, moved |-> TRUE,
          reason |-> "keyboard",
          attempts |-> << Attempt("key", FALSE) >>, focus |-> focus]
    ELSE IF ~clickThrows
    THEN [called |-> TRUE, status |-> status, moved |-> TRUE,
          reason |-> "button",
          attempts |-> << Attempt("key", TRUE), Attempt("click", FALSE) >>,
          focus |-> focus]
    ELSE IF ~scriptThrows
    THEN [called |-> TRUE, status |-> status, moved |-> TRUE,
          reason |-> "script",
          attempts |-> << Attempt("key", TRUE), Attempt("click", TRUE),
                          Attempt("script", FALSE) >>,
          focus |-> focus]
    ELSE [called |-> TRUE, status |-> status, moved |-> FALSE,
          reason |-> "unreachable",
          attempts |-> << Attempt("key", TRUE), Attempt("click", TRUE),
                          Attempt("script", TRUE) >>,
          focus |-> focus]

\* The page's answers to one advance: whether focus_gallery clicks, which
\* activations throw, whether the gallery honours the activation.  A method
\* that is not tried is taken not to throw.
NavEnv(focusOK, keyT, clickT, scriptT, honoured) ==
    [focusOK |-> focusOK, keyT |-> keyT, clickT |-> clickT,
     scriptT |-> scriptT, honoured |-> honoured]

QuietEnv == NavEnv(FALSE, FALSE, FALSE, FALSE, FALSE)

NavEnvs(status) ==
    IF status # "enabled" THEN { QuietEnv }
    ELSE { NavEnv(f, FALSE, FALSE, FALSE, h) : f \in BOOLEAN, h \in BOOLEAN }
         \cup { NavEnv(f, TRUE, FALSE, FALSE, h) : f \in BOOLEAN, h \in BOOLEAN }
         \cup { NavEnv(f, TRUE, TRUE, FALSE, h) : f \in BOOLEAN, h \in BOOLEAN }
         \cup { NavEnv(f, TRUE, TRUE, TRUE, FALSE) : f \in BOOLEAN }

Navigate(status, e) ==
    go_to_next_image(status, e.focusOK, e.keyT, e.clickT, e.scriptT)

\* Whether the advance dispatched a key press or a click of any kind.
Dispatched(nav) == nav.attempts # << >> \/ nav.focus = "clicked"

\* What the iteration record keeps of the advance: how it failed, not
\* which activation succeeded.
NavReason(nav) == IF nav.moved THEN "advanced" ELSE nav.reason

NoStep == [class |-> "none", id |-> 0, dl |-> "none", arrow |-> "none",
           reason |-> "none", dispatched |-> FALSE]

\* arrow: the status the iteration read from the next control ("none" when
\* it read none), by main in the duplicate branch or by go_to_next_image.
StepRecord(class, id, dl, arrow, nav) ==
    [class |-> class, id |-> id, dl |-> dl,
     arrow |-> IF nav.called THEN nav.status ELSE arrow,
     reason |-> NavReason(nav), dispatched |-> Dispatched(nav)]

Bump(f, id) == [f EXCEPT ![id] = @ + 1]

\* ------------------------------------------- navigation, direct variant

\* main of the direct variant, lines 164-201: use_keyboard was decided at
\* startup; arrowsNow is the number of arrows the selector finds now; the
\* others tell whether the scripted click, the key press and the last
\* resort key press throw.
direct_navigate(useKb, arrowsNow, scriptT, keyT, key2T) ==
    LET found == ~useKb /\ arrowsNow >= 1
        first == IF found THEN << Attempt("script", scriptT) >> ELSE << >>
        skipKey == found /\ ~scriptT
        second == IF skipKey THEN << >> ELSE << Attempt("key", keyT) >>
        third == IF ~skipKey /\ keyT THEN << Attempt("key", key2T) >>
                 ELSE << >>
        all == first \o second \o third
        ok == ~all[Len(all)].threw
    IN [called |-> TRUE,
        status |-> IF found THEN "enabled" ELSE "missing",
        moved |-> ok,
        reason |-> IF ~ok THEN "unreachable"
                   ELSE IF all[Len(all)].m = "script" THEN "button"
                   ELSE "keyboard",
        attempts |-> all,
        focus |-> "none"]

DirEnv(arrowsNow, scriptT, keyT, key2T, honoured) ==
    [arrowsNow |-> arrowsNow, scriptT |-> scriptT, keyT |-> keyT,
     key2T |-> key2T, honoured |-> honoured]

DirEnvs(useKb) ==
    LET counts == IF useKb THEN {0} ELSE 0 .. 2 IN
    { DirEnv(n, FALSE, FALSE, FALSE, h) : n \in counts, h \in BOOLEAN }
    \cup { DirEnv(n, TRUE, FALSE, FALSE, h) : n \in counts \ {0},
                                               h \in BOOLEAN }
    \cup { DirEnv(n, n > 0, TRUE, FALSE, h) : n \in counts, h \in BOOLEAN }
    \cup { DirEnv(n, n > 0, TRUE, TRUE, FALSE) : n \in counts }

DirNavigate(e) ==
    direct_navigate(use_keyboard, e.arrowsNow, e.scriptT, e.keyT, e.key2T)

\* -------------------------------------- navigation, interactive variant

\* main of the interactive variant, lines 158-177: the second arrow is
\* clicked when two arrows are found and it is visible; anything else ends
\* the loop.
interactive_navigate(arrows, visible, clickT) ==
    [called |-> TRUE,
     status |-> IF arrows < 2 THEN "missing"
                ELSE IF ~visible THEN "hidden" ELSE "enabled",
     moved |-> arrows >= 2 /\ visible /\ ~clickT,
     reason |-> IF arrows < 2 THEN "missing"
                ELSE IF ~visible THEN "hidden"
                ELSE IF clickT THEN "unreachable" ELSE "button",
     attempts |-> IF arrows >= 2 /\ visible
                  THEN << Attempt("click", clickT) >> ELSE << >>,
     focus |-> "none"]

IntEnv(arrows, visible, clickT, honoured) ==
    [arrows |-> arrows, visible |-> visible, clickT |-> clickT,
     honoured |-> honoured]

IntEnvs ==
    { IntEnv(n, FALSE, FALSE, FALSE) : n \in 0 .. 2 }
    \cup { IntEnv(2, TRUE, FALSE, h) : h \in BOOLEAN }
    \cup { IntEnv(2, TRUE, TRUE, FALSE) }

IntNavigate(e) == interactive_navigate(e.arrows, e.visible, e.clickT)

\* A faulty threshold: two duplicates in every script.
DuplicateLimitTwo(v) == 2

\* A faulty threshold: the three duplicates of the direct script in every
\* script.
DuplicateLimitDirect(v) == DirectDuplicateLimit

\* The duplicate threshold of each script.
DuplicateLimit(v) ==
    CASE v = "homepage"    -> MAX_DUPLICATE_STREAK
      [] v = "direct"      -> DirectDuplicateLimit
      [] v = "interactive" -> InteractiveDuplicateLimit

\* A faulty variant of the limit: a loop of twice as many iterations.
IterationLimitTwice(v) == 2 * max_images

\* range(50) in the homepage and direct variants, range(max_images) in the
\* interactive one.
IterationLimit(v) == IF v = "interactive" THEN max_images ELSE LoopLimit

\* ------------------------------------------------------------------- Init

MainInit ==
    /\ variant \in Variants
    /\ numPhotos \in 1 .. MaxPhotos
    /\ wraps \in BOOLEAN
    /\ badSrc \in { B \in SUBSET (1 .. numPhotos) :
                      Cardinality(B) <= MaxFaults }
    /\ disk = {}
    /\ run = 0
    /\ pc = "idle"
    /\ ended = "none"
    /\ pos = 1
    /\ existing_images = {}
    /\ highest_sequence = 0
    /\ expected_total = DefaultExpectedTotal
    /\ downloaded = 0
    /\ session_seen_ids = {}
    /\ consecutive_duplicates = 0
    /\ i = 0
    /\ no_image_count = 0
    /\ use_keyboard = FALSE
    /\ diskAtStart = {}
    /\ saves = [id \in Ids |-> 0]
    /\ fetches = [id \in Ids |-> 0]
    /\ last = NoStep
    /\ ideal = FALSE
    /\ failed = {}
    /\ faults = Cardinality(badSrc)

\* No call of go_to_next_image is followed step by step.
CtlIdle == [pc |-> "idle", status |-> "none", env |-> QuietEnv,
            log |-> << >>, focus |-> "none", result |-> NoNav]

Init == MainInit /\ ctl = CtlIdle

gallery == << variant, numPhotos, wraps, badSrc >>

\* What stays as it is from the startup of a run to its end.
RunFrame ==
    UNCHANGED << gallery, run, existing_images, highest_sequence,
                 expected_total, use_keyboard, diskAtStart, ctl >>

\* An iteration that fetches nothing.
NoFetch == UNCHANGED << disk, downloaded, saves, fetches, failed >>

\* The environment misbehaves at most MaxFaults times in a history: n more
\* faults are charged to the budget.
Charge(n) == faults + n <= MaxFaults /\ faults' = faults + n

\* What a download and an advance cost: a download that does not complete,
\* an activation that succeeds and that the gallery does not answer.
DlCost(outcome) == IF outcome = "ok" THEN 0 ELSE 1
PressCost(honoured) == IF honoured THEN 0 ELSE 1
NavCost(nav, honoured) == IF nav.moved THEN PressCost(honoured) ELSE 0

\* A run is started by the operator: the first, or one more after a run
\* has ended.
CanStart == pc \in {"idle", "done"} /\ run < MaxRuns

\* The counters main sets before its loop, and the history of the run.
ResetRun ==
    /\ run' = run + 1
    /\ downloaded' = 0
    /\ session_seen_ids' = {}
    /\ consecutive_duplicates' = 0
    /\ no_image_count' = 0
    /\ i' = 0
    /\ diskAtStart' = disk
    /\ fetches' = [id \in Ids |-> 0]
    /\ last' = NoStep
    /\ UNCHANGED << gallery, disk, saves, failed, faults, ctl >>

\* break: the loop ends and the run goes on to its summary.
Stop(how) == pc' = "done" /\ ended' = how /\ pos' = pos

\* The loop is at the top of an iteration it can execute.
AtIteration(v) == variant = v /\ pc = "loop" /\ i < IterationLimit(v)

\* A faulty variant of the download step that counts a file as saved
\* whatever the fetch returned.
DownloadAlwaysCounts(name, id, outcome) ==
    /\ disk' = DiskAfterDownload(disk, name, outcome)
    /\ downloaded' = downloaded + 1
    /\ saves' = IF outcome = "ok" THEN Bump(saves, id) ELSE saves
    /\ failed' = IF outcome = "ok" THEN failed \ {id} ELSE failed \cup {id}
    /\ fetches' = Bump(fetches, id)

\* download_image_from_url as called by main: the file, the count of saved
\* files, and the history of fetches.
Download(name, id, outcome) ==
    /\ disk' = DiskAfterDownload(disk, name, outcome)
    /\ downloaded' = IF outcome = "ok" THEN downloaded + 1 ELSE downloaded
    /\ saves' = IF outcome = "ok" THEN Bump(saves, id) ELSE saves
    /\ failed' = IF outcome = "ok" THEN failed \ {id} ELSE failed \cup {id}
    /\ fetches' = Bump(fetches, id)

\* ------------------------------------------------- homepage variant: main

\* main, line 273: the total the page's metadata reports, or 50 when it
\* reports none.  The page may understate the photos the gallery shows.
MetadataTotals ==
    {numPhotos, DefaultExpectedTotal}
      \cup (IF numPhotos > 1 THEN {numPhotos - 1} ELSE {})

\* main, lines 228-281: launch, open the gallery at its first photo, scan
\* the output directory, read the metadata, reset the counters.
HpStart ==
    /\ variant = "homepage"
    /\ CanStart
    /\ ResetRun
    /\ pc' = "warmup"
    /\ ended' = "none"
    /\ pos' = 1
    /\ existing_images' = ExistingIds(disk)
    /\ highest_sequence' = HighestSeq(disk)
    /\ expected_total' \in MetadataTotals
    /\ ideal' = (disk = {})
    /\ UNCHANGED use_keyboard

\* main, lines 233-251: the first navigation throws, or the page shows no
\* gallery item; the run ends before the scan.
HpStartFails ==
    /\ variant = "homepage"
    /\ CanStart
    /\ ResetRun
    /\ \E how \in {"error", "no_items"} : ended' = how
    /\ pc' = "done"
    /\ existing_images' = {}
    /\ highest_sequence' = 0
    /\ ideal' = FALSE
    /\ UNCHANGED << pos, expected_total, use_keyboard >>

\* main, lines 283-288: three ArrowRight presses before the first locate.
HpWarmUp ==
    /\ variant = "homepage"
    /\ pc = "warmup"
    /\ \E hs \in [1 .. WarmupPresses -> BOOLEAN] :
         /\ pos' = PressAll(pos, hs, 1)
         /\ Charge(Cardinality({ k \in 1 .. WarmupPresses : ~hs[k] }))
         /\ ideal' = (ideal /\ AllMove(pos, hs, 1))
    /\ pc' = "loop"
    /\ RunFrame
    /\ NoFetch
    /\ UNCHANGED << ended, session_seen_ids, consecutive_duplicates, i,
                    no_image_count, last >>

\* main, line 291: range(50) is exhausted.
HpLoopEnd ==
    /\ variant = "homepage"
    /\ pc = "loop"
    /\ i = LoopLimit
    /\ Stop("completed")
    /\ RunFrame
    /\ NoFetch
    /\ Charge(0)
    /\ UNCHANGED << session_seen_ids, consecutive_duplicates, i,
                    no_image_count, last, ideal >>

\* main, lines 292-294, the test at the top of an iteration.  It never
\* holds there: line 414 ends the loop in the iteration that brings the
\* set to the expected total, so the break of line 294 is no action.
SeenAll == Cardinality(session_seen_ids) >= expected_total

\* A faulty variant of the test after a new id: the loop never ends there.
ReachedTotalNever(seen, total) == FALSE

\* main, line 414, the test after a new id has been added to the set.
ReachedTotal(seen, total) == Cardinality(seen) >= total

\* A faulty variant of the step without an image: the loop goes on to the
\* next iteration instead of ending.
HpNoImageGoesOn ==
    /\ AtIteration("homepage")
    /\ ~SeenAll
    /\ i' = i + 1
    /\ last' = StepRecord("noimage", 0, "none", "none", NoNav)
    /\ ideal' = FALSE
    /\ RunFrame
    /\ NoFetch
    /\ Charge(1)
    /\ UNCHANGED << pc, ended, pos, session_seen_ids, consecutive_duplicates,
                    no_image_count >>

\* main, lines 303-361: no strategy finds an active image with an address.
HpNoImage ==
    /\ AtIteration("homepage")
    /\ ~SeenAll
    /\ Stop("completed")
    /\ i' = i + 1
    /\ last' = StepRecord("noimage", 0, "none", "none", NoNav)
    /\ ideal' = FALSE
    /\ RunFrame
    /\ NoFetch
    /\ Charge(1)
    /\ UNCHANGED << session_seen_ids, consecutive_duplicates,
                    no_image_count >>

\* main, lines 366-377: the address does not parse; continue.
HpUnparsed ==
    /\ AtIteration("homepage")
    /\ ~SeenAll
    /\ pos \in badSrc
    /\ i' = i + 1
    /\ last' = StepRecord("unparsed", 0, "none", "none", NoNav)
    /\ ideal' = FALSE
    /\ RunFrame
    /\ NoFetch
    /\ Charge(0)
    /\ UNCHANGED << pc, ended, pos, session_seen_ids,
                    consecutive_duplicates, no_image_count >>

\* The end of an iteration that called an advance: the gallery answers the
\* activation, and the loop goes on when the advance reported a move.
Advance(nav, honoured) ==
    /\ pos' = IF nav.moved THEN Press(pos, honoured) ELSE pos
    /\ pc' = IF nav.moved THEN "loop" ELSE "done"
    /\ ended' = IF nav.moved THEN "none" ELSE "completed"

\* Whether the page behaved during the advance: the control tells the truth
\* and an enabled control takes the gallery to the next photo.
AdvanceIdeal(nav, honoured) ==
    /\ ArrowTruthful(nav.status, pos)
    /\ nav.status = "enabled" => (nav.moved /\ honoured)

\* main, lines 382-395 and 418-428: an id already seen in this run.
HpDuplicate ==
    /\ AtIteration("homepage")
    /\ ~SeenAll
    /\ pos \notin badSrc
    /\ pos \in session_seen_ids
    /\ \E status \in ArrowStatuses :
         LET cd == consecutive_duplicates + 1
             brk == \/ SeenAll
                    \/ status # "enabled"
                    \/ cd >= DuplicateLimit("homepage")
         IN /\ consecutive_duplicates' = cd
            /\ IF brk
               THEN /\ last' = StepRecord("dup", pos, "none", status, NoNav)
                    /\ Stop("completed")
                    /\ Charge(0)
                    /\ ideal' = (ideal /\ ArrowTruthful(status, pos))
               ELSE \E status2 \in ArrowStatuses :
                    \E e \in NavEnvs(status2) :
                      LET nav == Navigate(status2, e) IN
                      /\ last' = StepRecord("dup", pos, "none", status, nav)
                      /\ Advance(nav, e.honoured)
                      /\ Charge(NavCost(nav, e.honoured))
                      /\ ideal' = (ideal /\ ArrowTruthful(status, pos)
                                   /\ AdvanceIdeal(nav, e.honoured))
    /\ i' = i + 1
    /\ RunFrame
    /\ NoFetch
    /\ UNCHANGED << session_seen_ids, no_image_count >>

\* A faulty variant of the step for an id found on disk: the id is not
\* added to the set of the session.
HpOnDiskForgets ==
    /\ AtIteration("homepage")
    /\ ~SeenAll
    /\ pos \notin badSrc
    /\ pos \notin session_seen_ids
    /\ OnDisk(pos, existing_images)
    /\ consecutive_duplicates' = 0
    /\ session_seen_ids' = session_seen_ids
    /\ IF ReachedTotal(session_seen_ids', expected_total)
       THEN /\ last' = StepRecord("disk", pos, "none", "none", NoNav)
            /\ Stop("completed")
            /\ Charge(0)
            /\ ideal' = ideal
       ELSE \E status \in ArrowStatuses :
            \E e \in NavEnvs(status) :
              LET nav == Navigate(status, e) IN
              /\ last' = StepRecord("disk", pos, "none", "none", nav)
              /\ Advance(nav, e.honoured)
              /\ Charge(NavCost(nav, e.honoured))
              /\ ideal' = (ideal /\ AdvanceIdeal(nav, e.honoured))
    /\ i' = i + 1
    /\ RunFrame
    /\ NoFetch
    /\ UNCHANGED no_image_count

\* main, lines 396-401 and 414-428: a new id of the session that the scan
\* found on disk.
HpOnDisk ==
    /\ AtIteration("homepage")
    /\ ~SeenAll
    /\ pos \notin badSrc
    /\ pos \notin session_seen_ids
    /\ OnDisk(pos, existing_images)
    /\ consecutive_duplicates' = 0
    /\ session_seen_ids' = session_seen_ids \cup {pos}
    /\ IF ReachedTotal(session_seen_ids', expected_total)
       THEN /\ last' = StepRecord("disk", pos, "none", "none", NoNav)
            /\ Stop("completed")
            /\ Charge(0)
            /\ ideal' = ideal
       ELSE \E status \in ArrowStatuses :
            \E e \in NavEnvs(status) :
              LET nav == Navigate(status, e) IN
              /\ last' = StepRecord("disk", pos, "none", "none", nav)
              /\ Advance(nav, e.honoured)
              /\ Charge(NavCost(nav, e.honoured))
              /\ ideal' = (ideal /\ AdvanceIdeal(nav, e.honoured))
    /\ i' = i + 1
    /\ RunFrame
    /\ NoFetch
    /\ UNCHANGED no_image_count

\* A faulty variant of the step for a new id: the id is fetched and saved
\* but not added to the set of the session.
HpNewForgets ==
    /\ AtIteration("homepage")
    /\ ~SeenAll
    /\ pos \notin badSrc
    /\ pos \notin session_seen_ids
    /\ ~OnDisk(pos, existing_images)
    /\ consecutive_duplicates' = 0
    /\ session_seen_ids' = session_seen_ids
    /\ \E outcome \in DownloadOutcomes :
         /\ Download(FileName(SeqNumber(highest_sequence, downloaded), pos),
                     pos, outcome)
         /\ IF outcome = "interrupt"
            THEN /\ last' = StepRecord("new", pos, outcome, "none", NoNav)
                 /\ Stop("interrupted")
                 /\ Charge(DlCost(outcome))
                 /\ ideal' = FALSE
            ELSE IF ReachedTotal(session_seen_ids', expected_total)
            THEN /\ last' = StepRecord("new", pos, outcome, "none", NoNav)
                 /\ Stop("completed")
                 /\ Charge(DlCost(outcome))
                 /\ ideal' = (ideal /\ outcome = "ok")
            ELSE \E status \in ArrowStatuses :
                 \E e \in NavEnvs(status) :
                   LET nav == Navigate(status, e) IN
                   /\ last' = StepRecord("new", pos, outcome, "none", nav)
                   /\ Advance(nav, e.honoured)
                   /\ Charge(DlCost(outcome) + NavCost(nav, e.honoured))
                   /\ ideal' = (ideal /\ outcome = "ok"
                                /\ AdvanceIdeal(nav, e.honoured))
    /\ i' = i + 1
    /\ RunFrame
    /\ UNCHANGED no_image_count

\* main, lines 396-428 with download_image_from_url: a new id that is not
\* on disk is fetched and saved under the next sequence number.  An
\* operator interrupt during the write is not an Exception: it leaves the
\* loop and main through the finally clause.
HpNew ==
    /\ AtIteration("homepage")
    /\ ~SeenAll
    /\ pos \notin badSrc
    /\ pos \notin session_seen_ids
    /\ ~OnDisk(pos, existing_images)
    /\ consecutive_duplicates' = 0
    /\ session_seen_ids' = session_seen_ids \cup {pos}
    /\ \E outcome \in DownloadOutcomes :
         /\ Download(FileName(SeqNumber(highest_sequence, downloaded), pos),
                     pos, outcome)
         /\ IF outcome = "interrupt"
            THEN /\ last' = StepRecord("new", pos, outcome, "none", NoNav)
                 /\ Stop("interrupted")
                 /\ Charge(DlCost(outcome))
                 /\ ideal' = FALSE
            ELSE IF ReachedTotal(session_seen_ids', expected_total)
            THEN /\ last' = StepRecord("new", pos, outcome, "none", NoNav)
                 /\ Stop("completed")
                 /\ Charge(DlCost(outcome))
                 /\ ideal' = (ideal /\ outcome = "ok")
            ELSE \E status \in ArrowStatuses :
                 \E e \in NavEnvs(status) :
                   LET nav == Navigate(status, e) IN
                   /\ last' = StepRecord("new", pos, outcome, "none", nav)
                   /\ Advance(nav, e.honoured)
                   /\ Charge(DlCost(outcome) + NavCost(nav, e.honoured))
                   /\ ideal' = (ideal /\ outcome = "ok"
                                /\ AdvanceIdeal(nav, e.honoured))
    /\ i' = i + 1
    /\ RunFrame
    /\ UNCHANGED no_image_count

\* --------------------------------------------------- direct variant: main

\* main, lines 45-102: load the gallery page, look for arrows, reset the
\* counters.  This script does not scan its output directory.
DirStart ==
    /\ variant = "direct"
    /\ CanStart
    /\ ResetRun
    /\ pc' = "loop"
    /\ ended' = "none"
    /\ pos' = 1
    /\ use_keyboard' \in BOOLEAN
    /\ UNCHANGED << existing_images, highest_sequence, expected_total,
                    ideal >>

\* main, lines 50-67: the navigation throws or the container is not found.
DirStartFails ==
    /\ variant = "direct"
    /\ CanStart
    /\ ResetRun
    /\ \E how \in {"error", "no_items"} : ended' = how
    /\ pc' = "done"
    /\ UNCHANGED << pos, use_keyboard, existing_images, highest_sequence,
                    expected_total, ideal >>

\* main, line 105: range(50) is exhausted.
DirLoopEnd ==
    /\ variant = "direct"
    /\ pc = "loop"
    /\ i = LoopLimit
    /\ Stop("completed")
    /\ RunFrame
    /\ NoFetch
    /\ Charge(0)
    /\ UNCHANGED << session_seen_ids, consecutive_duplicates, i,
                    no_image_count, last, ideal >>

\* main, lines 111-134: no large visible image, or no src attribute.
DirNoImage ==
    /\ AtIteration("direct")
    /\ Stop("completed")
    /\ i' = i + 1
    /\ last' = StepRecord("noimage", 0, "none", "none", NoNav)
    /\ RunFrame
    /\ NoFetch
    /\ Charge(1)
    /\ UNCHANGED << session_seen_ids, consecutive_duplicates,
                    no_image_count, ideal >>

\* main, lines 161-201: the address does not parse; the advance follows.
DirUnparsed ==
    /\ AtIteration("direct")
    /\ pos \in badSrc
    /\ \E e \in DirEnvs(use_keyboard) :
         LET nav == DirNavigate(e) IN
         /\ last' = StepRecord("unparsed", 0, "none", "none", nav)
         /\ Advance(nav, e.honoured)
         /\ Charge(NavCost(nav, e.honoured))
    /\ i' = i + 1
    /\ RunFrame
    /\ NoFetch
    /\ UNCHANGED << session_seen_ids, consecutive_duplicates,
                    no_image_count, ideal >>

\* main, lines 141-146 and 164-201: an address already seen in this run.
DirDuplicate ==
    /\ AtIteration("direct")
    /\ pos \notin badSrc
    /\ pos \in session_seen_ids
    /\ LET cd == consecutive_duplicates + 1 IN
       /\ consecutive_duplicates' = cd
       /\ IF cd >= DuplicateLimit("direct")
          THEN /\ last' = StepRecord("dup", pos, "none", "none", NoNav)
               /\ Stop("completed")
               /\ Charge(0)
          ELSE \E e \in DirEnvs(use_keyboard) :
                 LET nav == DirNavigate(e) IN
                 /\ last' = StepRecord("dup", pos, "none", "none", nav)
                 /\ Advance(nav, e.honoured)
                 /\ Charge(NavCost(nav, e.honoured))
    /\ i' = i + 1
    /\ RunFrame
    /\ NoFetch
    /\ UNCHANGED << session_seen_ids, no_image_count, ideal >>

\* A faulty variant of the step for a new address: the address is fetched
\* but not added to the set of the session.
DirNewForgets ==
    /\ AtIteration("direct")
    /\ pos \notin badSrc
    /\ pos \notin session_seen_ids
    /\ consecutive_duplicates' = 0
    /\ session_seen_ids' = session_seen_ids
    /\ \E outcome \in DownloadOutcomes :
         /\ Download(FileName(downloaded + 1, pos), pos, outcome)
         /\ IF outcome = "interrupt"
            THEN /\ last' = StepRecord("new", pos, outcome, "none", NoNav)
                 /\ Stop("interrupted")
                 /\ Charge(DlCost(outcome))
            ELSE \E e \in DirEnvs(use_keyboard) :
                   LET nav == DirNavigate(e) IN
                   /\ last' = StepRecord("new", pos, outcome, "none", nav)
                   /\ Advance(nav, e.honoured)
                   /\ Charge(DlCost(outcome) + NavCost(nav, e.honoured))
    /\ i' = i + 1
    /\ RunFrame
    /\ UNCHANGED << no_image_count, ideal >>

\* main, lines 147-160 and 164-201: a new address is fetched and saved as
\* sardine_<downloaded+1>_<id>.
DirNew ==
    /\ AtIteration("direct")
    /\ pos \notin badSrc
    /\ pos \notin session_seen_ids
    /\ consecutive_duplicates' = 0
    /\ session_seen_ids' = session_seen_ids \cup {pos}
    /\ \E outcome \in DownloadOutcomes :
         /\ Download(FileName(downloaded + 1, pos), pos, outcome)
         /\ IF outcome = "interrupt"
            THEN /\ last' = StepRecord("new", pos, outcome, "none", NoNav)
                 /\ Stop("interrupted")
                 /\ Charge(DlCost(outcome))
            ELSE \E e \in DirEnvs(use_keyboard) :
                   LET nav == DirNavigate(e) IN
                   /\ last' = StepRecord("new", pos, outcome, "none", nav)
                   /\ Advance(nav, e.honoured)
                   /\ Charge(DlCost(outcome) + NavCost(nav, e.honoured))
    /\ i' = i + 1
    /\ RunFrame
    /\ UNCHANGED << no_image_count, ideal >>

\* ---------------------------------------------- interactive variant: main

\* main, lines 61-91: load the site, wait for the operator to click on the
\* first image of the gallery, reset the counters.
IntStart ==
    /\ variant = "interactive"
    /\ CanStart
    /\ ResetRun
    /\ pc' = "loop"
    /\ ended' = "none"
    /\ pos' = 1
    /\ UNCHANGED << use_keyboard, existing_images, highest_sequence,
                    expected_total, ideal >>

\* main, lines 70-73 and 186-201: the navigation throws.
IntStartFails ==
    /\ variant = "interactive"
    /\ CanStart
    /\ ResetRun
    /\ ended' = "error"
    /\ pc' = "done"
    /\ UNCHANGED << pos, use_keyboard, existing_images, highest_sequence,
                    expected_total, ideal >>

\* main, line 93: range(max_images) is exhausted.
IntLoopEnd ==
    /\ variant = "interactive"
    /\ pc = "loop"
    /\ i = max_images
    /\ Stop("completed")
    /\ RunFrame
    /\ NoFetch
    /\ Charge(0)
    /\ UNCHANGED << session_seen_ids, consecutive_duplicates, i,
                    no_image_count, last, ideal >>

\* main, lines 114-122 and 150-156: no image wider than 400, or no src:
\* the counter goes up and the iteration is over, without an advance.
IntNoImage ==
    /\ AtIteration("interactive")
    /\ no_image_count' = no_image_count + 1
    /\ IF no_image_count' >= NoImageLimit
       THEN Stop("completed")
       ELSE UNCHANGED << pc, ended, pos >>
    /\ i' = i + 1
    /\ last' = StepRecord("noimage", 0, "none", "none", NoNav)
    /\ RunFrame
    /\ NoFetch
    /\ Charge(IF no_image_count = 0 THEN 1 ELSE 0)
    /\ UNCHANGED << session_seen_ids, consecutive_duplicates, ideal >>

\* main, lines 148-149 and 158-177: the address does not parse.
IntUnparsed ==
    /\ AtIteration("interactive")
    /\ pos \in badSrc
    /\ \E e \in IntEnvs :
         LET nav == IntNavigate(e) IN
         /\ last' = StepRecord("unparsed", 0, "none", "none", nav)
         /\ Advance(nav, e.honoured)
         /\ Charge(NavCost(nav, e.honoured))
    /\ i' = i + 1
    /\ RunFrame
    /\ NoFetch
    /\ UNCHANGED << session_seen_ids, consecutive_duplicates,
                    no_image_count, ideal >>

\* A faulty variant of the step for an address already seen: it resets the
\* counter of iterations without an image.
IntDuplicateResets ==
    /\ AtIteration("interactive")
    /\ pos \notin badSrc
    /\ pos \in session_seen_ids
    /\ LET cd == consecutive_duplicates + 1 IN
       /\ consecutive_duplicates' = cd
       /\ IF cd >= DuplicateLimit("interactive")
          THEN /\ last' = StepRecord("dup", pos, "none", "none", NoNav)
               /\ Stop("completed")
               /\ Charge(0)
          ELSE \E e \in IntEnvs :
                 LET nav == IntNavigate(e) IN
                 /\ last' = StepRecord("dup", pos, "none", "none", nav)
                 /\ Advance(nav, e.honoured)
                 /\ Charge(NavCost(nav, e.honoured))
    /\ i' = i + 1
    /\ RunFrame
    /\ NoFetch
    /\ no_image_count' = 0
    /\ UNCHANGED << session_seen_ids, ideal >>

\* main, lines 127-132 and 158-177: an address already seen in this run.
IntDuplicate ==
    /\ AtIteration("interactive")
    /\ pos \notin badSrc
    /\ pos \in session_seen_ids
    /\ LET cd == consecutive_duplicates + 1 IN
       /\ consecutive_duplicates' = cd
       /\ IF cd >= DuplicateLimit("interactive")
          THEN /\ last' = StepRecord("dup", pos, "none", "none", NoNav)
               /\ Stop("completed")
               /\ Charge(0)
          ELSE \E e \in IntEnvs :
                 LET nav == IntNavigate(e) IN
                 /\ last' = StepRecord("dup", pos, "none", "none", nav)
                 /\ Advance(nav, e.honoured)
                 /\ Charge(NavCost(nav, e.honoured))
    /\ i' = i + 1
    /\ RunFrame
    /\ NoFetch
    /\ UNCHANGED << session_seen_ids, no_image_count, ideal >>

\* main, lines 133-147 and 158-177: a new address is fetched and saved.
IntNew ==
    /\ AtIteration("interactive")
    /\ pos \notin badSrc
    /\ pos \notin session_seen_ids
    /\ consecutive_duplicates' = 0
    /\ no_image_count' = 0
    /\ session_seen_ids' = session_seen_ids \cup {pos}
    /\ \E outcome \in DownloadOutcomes :
         /\ Download(FileName(downloaded + 1, pos), pos, outcome)
         /\ IF outcome = "interrupt"
            THEN /\ last' = StepRecord("new", pos, outcome, "none", NoNav)
                 /\ Stop("interrupted")
                 /\ Charge(DlCost(outcome))
            ELSE \E e \in IntEnvs :
                   LET nav == IntNavigate(e) IN
                   /\ last' = StepRecord("new", pos, outcome, "none", nav)
                   /\ Advance(nav, e.honoured)
                   /\ Charge(DlCost(outcome) + NavCost(nav, e.honoured))
    /\ i' = i + 1
    /\ RunFrame
    /\ UNCHANGED ideal

\* ------------------------------------------------------------------- Next

Next ==
    \/ HpStart
    \/ HpStartFails
    \/ HpWarmUp
    \/ HpLoopEnd
    \/ HpNoImage
    \/ HpUnparsed
    \/ HpDuplicate
    \/ HpOnDisk
    \/ HpNew
    \/ DirStart
    \/ DirStartFails
    \/ DirLoopEnd
    \/ DirNoImage
    \/ DirUnparsed
    \/ DirDuplicate
    \/ DirNew
    \/ IntStart
    \/ IntStartFails
    \/ IntLoopEnd
    \/ IntNoImage
    \/ IntUnparsed
    \/ IntDuplicate
    \/ IntNew

Spec == Init /\ [][Next]_vars

\* The interpreter goes on while it has a statement to execute: a step of
\* the program that can be taken is taken.
FairSpec == Spec /\ WF_vars(Next)

\* ------------------------------------- go_to_next_image, one step at a time

\* The order in which go_to_next_image tries its activations.
NextMethod(m) ==
    CASE m = "key"   -> "click"
      [] m = "click" -> "script"

\* What go_to_next_image reports for the activation that did not throw.
MethodName(m) ==
    CASE m = "key"    -> "keyboard"
      [] m = "click"  -> "button"
      [] m = "script" -> "script"

\* Whether the page makes activation m throw.
Throws(e, m) ==
    CASE m = "key"    -> e.keyT
      [] m = "click"  -> e.clickT
      [] m = "script" -> e.scriptT

mainVars == << variant, numPhotos, wraps, badSrc, disk, run, pc, ended, pos,
               existing_images, highest_sequence, expected_total, downloaded,
               session_seen_ids, consecutive_duplicates, i, no_image_count,
               use_keyboard, diskAtStart, saves, fetches, last, ideal,
               failed, faults >>

\* A call of go_to_next_image, with the status that get_next_arrow_state
\* returns and the answers the page will give.
CtlStarts ==
    { [pc |-> "start", status |-> s,
       env |-> NavEnv(f, k, c, x, FALSE),
       log |-> << >>, focus |-> "none", result |-> NoNav] :
      s \in ArrowStatuses, f \in BOOLEAN, k \in BOOLEAN, c \in BOOLEAN,
      x \in BOOLEAN }

InitNav ==
    /\ MainInit
    /\ variant = "homepage"
    /\ numPhotos = 1
    /\ wraps = FALSE
    /\ badSrc = {}
    /\ ctl \in CtlStarts

\* go_to_next_image, lines 175-178: the control is not enabled.
NavBlocked ==
    /\ ctl.pc = "start"
    /\ ctl.status # "enabled"
    /\ ctl' = [ctl EXCEPT !.pc = "returned",
                          !.result = [called |-> TRUE, status |-> ctl.status,
                                      moved |-> FALSE, reason |-> ctl.status,
                                      attempts |-> << >>, focus |-> "none"]]
    /\ UNCHANGED mainVars

\* go_to_next_image, line 181: focus_gallery, whose result is not used.
NavFocus ==
    /\ ctl.pc = "start"
    /\ ctl.status = "enabled"
    /\ ctl' = [ctl EXCEPT !.pc = "key",
                          !.focus = IF ctl.env.focusOK THEN "clicked"
                                    ELSE "failed"]
    /\ UNCHANGED mainVars

\* go_to_next_image, lines 183-198: one activation; return when it does
\* not throw or when it was the last one, go to the next one otherwise.
NavTry(m) ==
    /\ ctl.pc = m
    /\ LET threw == Throws(ctl.env, m)
           log == Append(ctl.log, Attempt(m, threw))
           over == ~threw \/ m = "script"
       IN ctl' = [ctl EXCEPT
                    !.log = log,
                    !.pc = IF over THEN "returned" ELSE NextMethod(m),
                    !.result =
                        IF over
                        THEN [called |-> TRUE, status |-> ctl.status,
                              moved |-> ~threw,
                              reason |-> IF threw THEN "unreachable"
                                         ELSE MethodName(m),
                              attempts |-> log, focus |-> ctl.focus]
                        ELSE NoNav]
    /\ UNCHANGED mainVars

NavKey == NavTry("key")
NavClick == NavTry("click")
NavScript == NavTry("script")

NextNav ==
    \/ NavBlocked
    \/ NavFocus
    \/ NavKey
    \/ NavClick
    \/ NavScript

SpecNav == InitNav /\ [][NextNav]_vars

\* ------------------------------------------- the locator, one strategy at a time

\* A candidate element of a selector's result.  kind says what its queries
\* answer:
\*   "good"       visible, wider than 500, with an address
\*   "hidden"     is_visible() is False
\*   "small"      visible, bounding box missing or not wider than 500
\*   "visThrows"  is_visible() or bounding_box() throws
\*   "noSrc"      visible, wider than 500, get_attribute returns None
\*   "srcThrows"  visible, wider than 500, get_attribute throws
\* size ranks the boxes wider than 500: the distance of the centre of the
\* box from the centre of the viewport, and the width of the box.
CandKinds == {"good", "hidden", "small", "visThrows", "noSrc", "srcThrows"}
Measured == {"good", "noSrc", "srcThrows"}
Sizes == 1 .. 2

Cand(kind, size) == [kind |-> kind, size |-> size]

\* find_active_image does not measure the box.
ActiveCands == { Cand(k, 1) : k \in CandKinds \ {"small"} }
BoxCands ==
    { Cand(k, 1) : k \in CandKinds \ Measured }
    \cup { Cand(k, z) : k \in Measured, z \in Sizes }

ListsOf(C, n) == [1 .. n -> C]

\* What the three queries of an iteration return: the images under the
\* active item container, the gallery images, the images of the media host.
PageShapes ==
    { sh \in (0 .. MaxPerList) \X (0 .. MaxPerList) \X (0 .. MaxPerList) :
        sh[1] + sh[2] + sh[3] <= MaxCands }

Page(a, g, m) == [active |-> a, gallery |-> g, media |-> m]

NoImg == [strategy |-> "none", index |-> 0]
Img(strategy, k) == [strategy |-> strategy, index |-> k]

\* A faulty variant of find_active_image that never finds an image.
find_active_image_none(imgs, k) == [img |-> NoImg, src |-> NoImg]

\* find_active_image, lines 207-221: the first candidate that is visible
\* and has an address; a candidate whose query throws is skipped.
RECURSIVE find_active_image(_, _)
find_active_image(imgs, k) ==
    IF k > Len(imgs) THEN [img |-> NoImg, src |-> NoImg]
    ELSE IF imgs[k].kind \in {"good", "small"}
         THEN [img |-> Img("active", k), src |-> Img("active", k)]
         ELSE find_active_image(imgs, k + 1)

\* main, lines 317-330: the visible candidate wider than 500 whose centre
\* is nearest to the centre of the viewport, the first of them on a tie
\* (best is the index so far, 0 for none).
RECURSIVE most_centered(_, _, _)
most_centered(imgs, k, best) ==
    IF k > Len(imgs) THEN best
    ELSE IF imgs[k].kind \in Measured
              /\ (best = 0 \/ imgs[k].size < imgs[best].size)
         THEN most_centered(imgs, k + 1, k)
         ELSE most_centered(imgs, k + 1, best)

\* main, lines 332-335: the best candidate becomes the current image and
\* its src attribute is read, outside any try block.
centered(imgs) ==
    LET best == most_centered(imgs, 1, 0) IN
    IF best = 0 THEN [img |-> NoImg, src |-> NoImg, threw |-> FALSE]
    ELSE [img |-> Img("centered", best),
          src |-> IF imgs[best].kind = "good" THEN Img("centered", best)
                  ELSE NoImg,
          threw |-> imgs[best].kind = "srcThrows"]

\* main, lines 342-351: each visible candidate wider than the widest so
\* far becomes the current image before its src is read; when the read
\* throws, the src of the candidate before it stays.
RECURSIVE largest(_, _, _, _, _)
largest(imgs, k, max_width, img, src) ==
    IF k > Len(imgs) THEN [img |-> img, src |-> src]
    ELSE IF imgs[k].kind \in Measured /\ imgs[k].size > max_width
         THEN largest(imgs, k + 1, imgs[k].size, Img("largest", k),
                      CASE imgs[k].kind = "good"      -> Img("largest", k)
                        [] imgs[k].kind = "noSrc"     -> NoImg
                        [] imgs[k].kind = "srcThrows" -> src)
         ELSE largest(imgs, k + 1, max_width, img, src)

\* One locate of main: the page it looks at, the strategies consulted so
\* far, the current image and its address.
LocStart(pg) ==
    [pc |-> "active", page |-> pg, consulted |-> << >>,
     current_img |-> NoImg, img_src |-> NoImg]

\* The rest of the program at rest, for the specifications that follow one
\* function step by step.
QuietMain ==
    /\ MainInit
    /\ variant = "homepage"
    /\ numPhotos = 1
    /\ wraps = FALSE
    /\ badSrc = {}

InitLoc ==
    /\ QuietMain
    /\ \E sh \in PageShapes :
         \E a \in ListsOf(ActiveCands, sh[1]), g \in ListsOf(BoxCands, sh[2]),
            m \in ListsOf(BoxCands, sh[3]) :
           ctl = LocStart(Page(a, g, m))

\* main, line 303: find_active_image.
LocActive ==
    /\ ctl.pc = "active"
    /\ LET r == find_active_image(ctl.page.active, 1) IN
       ctl' = [ctl EXCEPT !.consulted = Append(@, "active"),
                          !.current_img = r.img,
                          !.img_src = r.src,
                          !.pc = IF r.img = NoImg THEN "centered"
                                 ELSE "decide"]
    /\ UNCHANGED mainVars

\* main, lines 305-335: the centering strategy, when there is no current
\* image.
LocCentered ==
    /\ ctl.pc = "centered"
    /\ LET r == centered(ctl.page.gallery) IN
       ctl' = [ctl EXCEPT !.consulted = Append(@, "centered"),
                          !.current_img = r.img,
                          !.img_src = r.src,
                          !.pc = IF r.threw THEN "error"
                                 ELSE IF r.img = NoImg THEN "largest"
                                 ELSE "decide"]
    /\ UNCHANGED mainVars

\* main, lines 337-354: the largest visible image, when there is still no
\* current image.
LocLargest ==
    /\ ctl.pc = "largest"
    /\ LET r == largest(ctl.page.media, 1, 0, NoImg, NoImg) IN
       ctl' = [ctl EXCEPT !.consulted = Append(@, "largest"),
                          !.current_img = r.img,
                          !.img_src = r.src,
                          !.pc = "decide"]
    /\ UNCHANGED mainVars

\* main, lines 356-361: no current image or no address ends the loop.
LocDecide ==
    /\ ctl.pc = "decide"
    /\ ctl' = [ctl EXCEPT !.pc = IF ctl.current_img = NoImg
                                    \/ ctl.img_src = NoImg
                                 THEN "notfound" ELSE "found"]
    /\ UNCHANGED mainVars

NextLoc ==
    \/ LocActive
    \/ LocCentered
    \/ LocLargest
    \/ LocDecide

SpecLoc == InitLoc /\ [][NextLoc]_vars

\* ============================================== file names as characters

\* How many digits the sequence numbers tried have, and how long the ids.
MaxSeqDigits == 4
MaxIdLen == 2

DigitChars == << "0", "1", "2", "3", "4", "5", "6", "7", "8", "9" >>

\* \d, [a-f0-9] and [a-z] of the pattern of line 62.
IsDigit(c) == \E k \in 1 .. 10 : DigitChars[k] = c
IsHex(c) == IsDigit(c) \/ c \in {"a", "b", "c", "d", "e", "f"}
IsLower(c) ==
    c \in {"a", "b", "c", "d", "e", "f", "g", "h", "i", "j", "k", "l", "m",
           "n", "o", "p", "q", "r", "s", "t", "u", "v", "w", "x", "y", "z"}

DigitOf(c) == CHOOSE k \in 0 .. 9 : DigitChars[k + 1] = c

\* The decimal digits of a natural number, as the format specifier d
\* writes them.
RECURSIVE Decimal(_)
Decimal(n) ==
    IF n < 10 THEN << DigitChars[n + 1] >>
    ELSE Append(Decimal(n \div 10), DigitChars[(n % 10) + 1])

\* A faulty variant of the padding: a field of exactly w characters, which
\* drops the leading digits of a longer number.
ZeroPadFixed(ds, w) ==
    [k \in 1 .. w |-> IF k <= w - Len(ds) THEN "0" ELSE ds[Len(ds) - w + k]]

\* The width and zero flag of {seq_number:03d}: zeros on the left up to w
\* characters, nothing cut.
RECURSIVE ZeroPad(_, _)
ZeroPad(ds, w) == IF Len(ds) >= w THEN ds ELSE ZeroPad(<< "0" >> \o ds, w)

SardinePrefix == << "s", "a", "r", "d", "i", "n", "e", "_" >>

\* main, line 404: f"sardine_{seq_number:03d}_{img_id}.{ext}".
sardine_name(seq, img_id, ext) ==
    SardinePrefix \o ZeroPad(Decimal(seq), 3) \o << "_" >> \o img_id
        \o << "." >> \o ext

\* The longest run of digits, of hexadecimal characters, from position k.
RECURSIVE DigitRun(_, _)
DigitRun(s, k) ==
    IF k <= Len(s) /\ IsDigit(s[k]) THEN 1 + DigitRun(s, k + 1) ELSE 0

RECURSIVE HexRun(_, _)
HexRun(s, k) ==
    IF k <= Len(s) /\ IsHex(s[k]) THEN 1 + HexRun(s, k + 1) ELSE 0

\* int() of a string of digits.
RECURSIVE ToInt(_)
ToInt(ds) ==
    IF ds = << >> THEN 0
    ELSE 10 * ToInt(SubSeq(ds, 1, Len(ds) - 1)) + DigitOf(ds[Len(ds)])

NoMatch == [matched |-> FALSE, seq |-> 0, img_id |-> << >>]

\* id_pattern.match(file_path.name), lines 62 and 66-69.  A greedy run
\* that is not followed by its separator has no shorter alternative: the
\* character after a shorter run belongs to the run.
id_pattern_match(name) ==
    LET p   == Len(SardinePrefix)
        nd  == DigitRun(name, p + 1)
        u   == p + nd + 1
        nh  == HexRun(name, u + 1)
        dot == u + nh + 1
        ok  == /\ Len(name) >= p
               /\ SubSeq(name, 1, p) = SardinePrefix
               /\ nd >= 1
               /\ u <= Len(name)
               /\ name[u] = "_"
               /\ nh >= 1
               /\ dot < Len(name)
               /\ name[dot] = "."
               /\ \A k \in dot + 1 .. Len(name) : IsLower(name[k])
    IN IF ok
       THEN [matched |-> TRUE,
             seq     |-> ToInt(SubSeq(name, p + 1, p + nd)),
             img_id  |-> SubSeq(name, u + 1, u + nh)]
       ELSE NoMatch

\* OUTPUT_DIR.glob("sardine_*.*"), line 65.
Globbed(name) ==
    /\ Len(name) > Len(SardinePrefix)
    /\ SubSeq(name, 1, Len(SardinePrefix)) = SardinePrefix
    /\ \E k \in Len(SardinePrefix) + 1 .. Len(name) : name[k] = "."

\* discover_existing_images over a directory of names: the paths kept per
\* id, and the highest sequence number.
discover_existing_images(dir) ==
    LET hits == { n \in dir : Globbed(n) /\ id_pattern_match(n).matched }
    IN [existing |-> { [img_id |-> id_pattern_match(n).img_id,
                        file_path |-> n] : n \in hits },
        highest_seq |-> SetMax({ id_pattern_match(n).seq : n \in hits })]

RECURSIVE Pow10(_)
Pow10(k) == IF k = 0 THEN 1 ELSE 10 * Pow10(k - 1)

\* The sequence numbers tried: around every power of ten.
SeqNumbers ==
    {1} \cup UNION { { Pow10(k) - 1, Pow10(k), Pow10(k) + 23 } :
                     k \in 1 .. MaxSeqDigits }

\* The ids tried, as get_original_image_url extracts them: [a-f0-9]+.
HexSample == {"0", "9", "a", "f"}
ImgIds == UNION { [1 .. n -> HexSample] : n \in 1 .. MaxIdLen }

\* The extensions get_original_image_url lets through, line 35.
Extensions ==
    { << "j", "p", "g" >>, << "j", "p", "e", "g" >>, << "p", "n", "g" >> }

\* Files of the directory that the glob finds and the pattern rejects.
Strays == { SardinePrefix \o << "x", ".", "j", "p", "g" >>,
            SardinePrefix \o << "0", "0", "1", ".", "p", "n", "g" >> }

NameStarts ==
    { [pc |-> "build", seq |-> n, img_id |-> d, ext |-> e, stray |-> st,
       name |-> << >>, existing |-> {}, highest_seq |-> 0] :
      n \in SeqNumbers, d \in ImgIds, e \in Extensions,
      st \in { {} } \cup { {x} : x \in Strays } }

InitName == QuietMain /\ ctl \in NameStarts

\* main, line 404: the name of the file to write.
NameBuild ==
    /\ ctl.pc = "build"
    /\ ctl' = [ctl EXCEPT !.name = sardine_name(ctl.seq, ctl.img_id, ctl.ext),
                          !.pc = "scan"]
    /\ UNCHANGED mainVars

\* The scan of the next start, over the directory that holds the file.
NameScan ==
    /\ ctl.pc = "scan"
    /\ LET r == discover_existing_images({ctl.name} \cup ctl.stray) IN
       ctl' = [ctl EXCEPT !.existing = r.existing,
                          !.highest_seq = r.highest_seq,
                          !.pc = "scanned"]
    /\ UNCHANGED mainVars

NextName ==
    \/ NameBuild
    \/ NameScan

SpecName == InitName /\ [][NextName]_vars

\* ================================================== get_next_arrow_state

\* The selectors of lines 97-102, and how many of them find an element on
\* the pages tried.
NumSelectors == 4
MaxControls == 2

\* What the page answers about an element: the result of the style
\* evaluation of lines 124-136 and 147-159, or an exception.
NoEval == [threw |-> FALSE, hidden |-> FALSE, disabled |-> FALSE]
EvalThrows == [threw |-> TRUE, hidden |-> FALSE, disabled |-> FALSE]
Evals == { [threw |-> FALSE, hidden |-> h, disabled |-> d] :
           h \in BOOLEAN, d \in BOOLEAN }

\* arrow.query_selector("button"): nothing, an exception, or a button with
\* its evaluation.
NoInner == [query |-> "none", eval |-> NoEval]
Inners ==
    { NoInner, [query |-> "throws", eval |-> NoEval] }
        \cup { [query |-> "found", eval |-> e] :
               e \in Evals \cup {EvalThrows} }

\* What a selector finds.  box is the answer of bounding_box and
\* is_visible together: an exception, no box, a box without width or
\* height, or a box with both.
NoControl ==
    [query |-> "none", box |-> "none", visible |-> FALSE, eval |-> NoEval,
     inner |-> NoInner]

Controls ==
    { [NoControl EXCEPT !.query = "throws"] }
        \cup { [NoControl EXCEPT !.query = "found", !.box = b,
                                 !.visible = TRUE] :
               b \in {"throws", "none", "zero"} }
        \cup { [NoControl EXCEPT !.query = "found", !.box = "ok"] }
        \cup { [query |-> "found", box |-> "ok", visible |-> TRUE,
                eval |-> e, inner |-> NoInner] :
               e \in { x \in Evals : x.hidden } }
        \cup { [query |-> "found", box |-> "ok", visible |-> TRUE,
                eval |-> e, inner |-> n] :
               e \in { x \in Evals : ~x.hidden } \cup {EvalThrows},
               n \in Inners }

\* A page: the selectors of S find the elements f gives them, the others
\* find nothing.
ArrowPage(S, f) ==
    [k \in 1 .. NumSelectors |-> IF k \in S THEN f[k] ELSE NoControl]

\* Lines 106-111: the query of a selector; an exception is no element.
arrow_found(c) == c.query = "found"

\* Lines 113-121: the control has a box with width and height and is
\* visible; an exception of either query counts as no box and invisible.
arrow_measured(c) == c.box = "ok" /\ c.visible

\* Lines 123-138: the style evaluation of the control; an exception counts
\* as neither hidden nor disabled.
arrow_evaluate(c) ==
    IF c.eval.threw THEN [hidden |-> FALSE, disabled |-> FALSE]
    ELSE [hidden |-> c.eval.hidden, disabled |-> c.eval.disabled]

\* A faulty variant of the inner check: a hidden inner button does not
\* skip the control.
inner_check_no_skip(c) ==
    IF c.inner.query # "found" \/ c.inner.eval.threw
    THEN [skip |-> FALSE, inner_disabled |-> FALSE]
    ELSE [skip |-> FALSE, inner_disabled |-> c.inner.eval.disabled]

\* Lines 143-164: the inner button; no button and exceptions leave
\* inner_disabled False, a hidden inner button skips the control.
inner_check(c) ==
    IF c.inner.query # "found" \/ c.inner.eval.threw
    THEN [skip |-> FALSE, inner_disabled |-> FALSE]
    ELSE [skip |-> c.inner.eval.hidden,
          inner_disabled |-> c.inner.eval.disabled]

\* A call of get_next_arrow_state: the page, the selector at hand, what
\* was evaluated for it, and the result.
ArrowStart(pg) ==
    [pc |-> "select", sels |-> pg, k |-> 1,
     arrow_eval |-> [hidden |-> FALSE, disabled |-> FALSE],
     inner_disabled |-> FALSE, status |-> "none", arrow |-> 0]

\* The pages tried: at most MaxControls selectors find an element or throw.
InitArrow ==
    /\ QuietMain
    /\ \E S \in { T \in SUBSET (1 .. NumSelectors) :
                    Cardinality(T) <= MaxControls } :
         \E f \in [S -> Controls] : ctl = ArrowStart(ArrowPage(S, f))

\* continue: on to the next selector.
NextSelector == [ctl EXCEPT !.k = @ + 1, !.pc = "select"]

\* Lines 104-111 and 171: the next selector is queried; after the last one
\* the result is "missing".
ArrowSelect ==
    /\ ctl.pc = "select"
    /\ ctl' = IF ctl.k > NumSelectors
              THEN [ctl EXCEPT !.status = "missing", !.arrow = 0,
                               !.pc = "return"]
              ELSE IF arrow_found(ctl.sels[ctl.k])
              THEN [ctl EXCEPT !.pc = "measure"]
              ELSE NextSelector
    /\ UNCHANGED mainVars

\* Lines 113-121.
ArrowMeasure ==
    /\ ctl.pc = "measure"
    /\ ctl' = IF arrow_measured(ctl.sels[ctl.k])
              THEN [ctl EXCEPT !.pc = "style"]
              ELSE NextSelector
    /\ UNCHANGED mainVars

\* Lines 123-141.
ArrowStyle ==
    /\ ctl.pc = "style"
    /\ LET e == arrow_evaluate(ctl.sels[ctl.k]) IN
       ctl' = IF e.hidden
              THEN [NextSelector EXCEPT !.arrow_eval = e]
              ELSE [ctl EXCEPT !.arrow_eval = e, !.pc = "inner"]
    /\ UNCHANGED mainVars

\* Lines 143-164.
ArrowInner ==
    /\ ctl.pc = "inner"
    /\ LET n == inner_check(ctl.sels[ctl.k]) IN
       ctl' = IF n.skip
              THEN [NextSelector EXCEPT !.inner_disabled = n.inner_disabled]
              ELSE [ctl EXCEPT !.inner_disabled = n.inner_disabled,
                               !.pc = "status"]
    /\ UNCHANGED mainVars

\* Lines 166-169.
ArrowStatus ==
    /\ ctl.pc = "status"
    /\ ctl' = [ctl EXCEPT
                 !.status = IF ctl.arrow_eval.disabled \/ ctl.inner_disabled
                            THEN "disabled" ELSE "enabled",
                 !.arrow = ctl.k,
                 !.pc = "return"]
    /\ UNCHANGED mainVars

NextArrow ==
    \/ ArrowSelect
    \/ ArrowMeasure
    \/ ArrowStyle
    \/ ArrowInner
    \/ ArrowStatus

SpecArrow == InitArrow /\ [][NextArrow]_vars

\* ======================================== launch, try, finally and exit

\* How many iterations a run is followed through, and how many times the
\* operator interrupts it.
MaxIterations == 2
MaxInterrupts == 1

\* The statements of the loop body where a run spends its time.
BodyPhases == {"wait", "locate", "download", "advance"}

\* Where an interrupt can arrive: from the return of launch to the call of
\* browser.close().
InterruptPhases ==
    {"new_page"} \cup BodyPhases \cup {"summary", "handler", "finally_wait"}

\* Only the interactive script has a headless mode (its line 63).
HeadlessModes(v) == IF v = "interactive" THEN BOOLEAN ELSE {FALSE}

\* A run of one of the scripts: browser is what launch returned and
\* whether close() was called on it; pending is the exception on its way
\* out of main; hit is where the interrupt arrived; cause is what went
\* wrong at startup or later; code is the exit status of the process.
RunStarts ==
    UNION { { [pc |-> "start", script |-> v, headless |-> h, n |-> 0,
               browser |-> "none", pending |-> "none", interrupts |-> 0,
               hit |-> "none", cause |-> "none", code |-> 0] :
              h \in HeadlessModes(v) } :
            v \in Variants }

InitRun == QuietMain /\ ctl \in RunStarts

\* p.chromium.launch(...): homepage line 230, direct line 47, interactive
\* line 63.
RunLaunch ==
    /\ ctl.pc = "start"
    /\ ctl' = [ctl EXCEPT !.browser = "open", !.pc = "new_page"]
    /\ UNCHANGED mainVars

\* launch throws: no try statement is around it, the exception leaves
\* main.
RunLaunchFails ==
    /\ ctl.pc = "start"
    /\ ctl' = [ctl EXCEPT !.pc = "with_exit", !.pending = "Exception",
                          !.cause = "launch"]
    /\ UNCHANGED mainVars

\* browser.new_page(...), before the try statement: homepage line 231,
\* direct line 48, interactive lines 64-68.
RunNewPage ==
    /\ ctl.pc = "new_page"
    /\ ctl' = [ctl EXCEPT !.pc = "wait"]
    /\ UNCHANGED mainVars

\* page.goto and time.sleep: the page loads, the image settles.
RunWait ==
    /\ ctl.pc = "wait"
    /\ ctl' = [ctl EXCEPT !.pc = "locate"]
    /\ UNCHANGED mainVars

\* The page shows no gallery: return inside the try statement, homepage
\* lines 249-251, direct lines 64-67.
RunNoGallery ==
    /\ ctl.pc = "wait"
    /\ ctl.n = 0
    /\ ctl.script \in {"homepage", "direct"}
    /\ ctl' = [ctl EXCEPT !.pc = "finally_wait", !.cause = "no_gallery"]
    /\ UNCHANGED mainVars

\* The locate of an iteration: an image, or none and break.
RunLocate ==
    /\ ctl.pc = "locate"
    /\ \E found \in BOOLEAN :
         ctl' = [ctl EXCEPT !.pc = IF found THEN "download" ELSE "summary"]
    /\ UNCHANGED mainVars

\* download_image_from_url: its Exceptions are caught inside.
RunDownload ==
    /\ ctl.pc = "download"
    /\ ctl' = [ctl EXCEPT !.pc = "advance"]
    /\ UNCHANGED mainVars

\* The advance of an iteration: on to the next one, or break.
RunAdvance ==
    /\ ctl.pc = "advance"
    /\ \E moved \in BOOLEAN :
         ctl' = [ctl EXCEPT !.n = @ + 1,
                            !.pc = IF moved /\ ctl.n + 1 < MaxIterations
                                   THEN "wait" ELSE "summary"]
    /\ UNCHANGED mainVars

\* An Exception inside the try statement is caught by except Exception:
\* homepage line 434, direct line 207, interactive line 186.
RunRaise ==
    /\ ctl.pc \in {"wait", "locate", "advance"}
    /\ ctl' = [ctl EXCEPT !.pc = "handler",
                          !.cause = IF ctl.pc = "wait" /\ ctl.n = 0
                                    THEN "navigation" ELSE "exception"]
    /\ UNCHANGED mainVars

\* The handler prints the traceback and goes on to the finally clause.
RunHandler ==
    /\ ctl.pc = "handler"
    /\ ctl' = [ctl EXCEPT !.pc = "finally_wait"]
    /\ UNCHANGED mainVars

\* The summary after the loop: homepage lines 430-432.
RunSummary ==
    /\ ctl.pc = "summary"
    /\ ctl' = [ctl EXCEPT !.pc = "finally_wait"]
    /\ UNCHANGED mainVars

\* Whether the finally clause sleeps before it closes the browser:
\* homepage lines 440-441, direct lines 219-220, interactive lines 198-200.
FinallySleeps(c) == c.script # "interactive" \/ ~c.headless

\* The finally clause up to the call of browser.close().
RunFinallyWait ==
    /\ ctl.pc = "finally_wait"
    /\ ctl' = [ctl EXCEPT !.pc = "close"]
    /\ UNCHANGED mainVars

\* browser.close(): homepage line 442, direct line 221, interactive line
\* 201.
RunClose ==
    /\ ctl.pc = "close"
    /\ ctl' = [ctl EXCEPT !.browser = "closed", !.pc = "with_exit"]
    /\ UNCHANGED mainVars

\* The exit status of the interpreter: 1 for an exception that nothing
\* caught, 0 otherwise; no script calls sys.exit.
ExitStatus(pending) == IF pending = "Exception" THEN 1 ELSE 0

\* The end of the with statement and of main; a KeyboardInterrupt on its
\* way out is caught under __main__: homepage lines 447-451.
RunExit ==
    /\ ctl.pc = "with_exit"
    /\ ctl' = [ctl EXCEPT !.pc = "exit", !.code = ExitStatus(ctl.pending)]
    /\ UNCHANGED mainVars

\* Where a KeyboardInterrupt takes the run.  Before the try statement and
\* inside the finally clause no handler and no finally clause is ahead of
\* it.  Inside the try statement the finally clause is next; the
\* interactive script catches it first (line 183).  Inside the handler of
\* the direct and the interactive script a bare except around the
\* screenshot swallows it.
AfterInterrupt(c, swallowed) ==
    CASE c.pc = "new_page" ->
           [c EXCEPT !.pc = "with_exit", !.pending = "KeyboardInterrupt"]
      [] c.pc = "finally_wait" ->
           [c EXCEPT !.pc = "with_exit", !.pending = "KeyboardInterrupt"]
      [] c.pc = "handler" ->
           IF swallowed /\ c.script # "homepage"
           THEN [c EXCEPT !.pc = "finally_wait"]
           ELSE [c EXCEPT !.pc = "finally_wait",
                          !.pending = "KeyboardInterrupt"]
      [] OTHER ->
           IF c.script = "interactive"
           THEN [c EXCEPT !.pc = "finally_wait"]
           ELSE [c EXCEPT !.pc = "finally_wait",
                          !.pending = "KeyboardInterrupt"]

\* The operator presses Ctrl-C.
RunInterrupt ==
    /\ ctl.pc \in InterruptPhases
    /\ ctl.pc = "finally_wait" => FinallySleeps(ctl)
    /\ ctl.interrupts < MaxInterrupts
    /\ \E swallowed \in BOOLEAN :
         ctl' = [AfterInterrupt(ctl, swallowed) EXCEPT
                   !.interrupts = @ + 1, !.hit = ctl.pc]
    /\ UNCHANGED mainVars

NextRun ==
    \/ RunLaunch
    \/ RunLaunchFails
    \/ RunNewPage
    \/ RunWait
    \/ RunNoGallery
    \/ RunLocate
    \/ RunDownload
    \/ RunAdvance
    \/ RunRaise
    \/ RunHandler
    \/ RunSummary
    \/ RunFinallyWait
    \/ RunClose
    \/ RunExit
    \/ RunInterrupt

SpecRun == InitRun /\ [][NextRun]_vars

\* ================================== two runs on the same output directory

Procs == {1, 2}

\* A run of the homepage script as far as its files go: the scan, the
\* counters of main, and the photo on display in its own browser.
ProcIdle ==
    [pc |-> "idle", pos |-> 1, existing_images |-> {},
     highest_sequence |-> 0, expected_total |-> 0, downloaded |-> 0,
     session_seen_ids |-> {}]

\* Two processes, the directory they share, and the names that were opened
\* for writing, by whom; twice records a name that one process opened a
\* second time.
PairStart ==
    [pc |-> "pair", disk |-> {}, written |-> {}, twice |-> FALSE,
     proc |-> [p \in Procs |-> ProcIdle]]

InitPair ==
    /\ MainInit
    /\ variant = "homepage"
    /\ badSrc = {}
    /\ ctl = PairStart

\* Whether download_image_from_url opens the file: line 25 follows
\* raise_for_status.
Opens(outcome) == outcome # "http_error"

\* main, lines 268-288: the scan of the directory as it is now, the
\* expected total, and the warm-up presses of a gallery that answers each
\* of them.
PairScan(p) ==
    /\ ctl.proc[p].pc = "idle"
    /\ \E total \in {numPhotos, DefaultExpectedTotal} :
       ctl' = [ctl EXCEPT !.proc[p] =
                 [ProcIdle EXCEPT
                    !.pc = "loop",
                    !.expected_total = total,
                    !.pos = PressAll(1, [k \in 1 .. WarmupPresses |-> TRUE], 1),
                    !.existing_images = ExistingIds(ctl.disk),
                    !.highest_sequence = HighestSeq(ctl.disk)]]
    /\ UNCHANGED mainVars

\* main, lines 382-395: an id seen before in this run ends the loop.
PairDuplicate(p) ==
    LET me == ctl.proc[p] IN
    /\ me.pc = "loop"
    /\ me.pos \in me.session_seen_ids
    /\ ctl' = [ctl EXCEPT !.proc[p].pc = "done"]
    /\ UNCHANGED mainVars

\* main, lines 396-428: a new id is recorded, fetched unless the scan found
\* it, and the gallery moves on while it has a next photo and the expected
\* total is not reached.
PairNew(p) ==
    LET me == ctl.proc[p]
        id == me.pos
        seen == me.session_seen_ids \cup {id}
        name == FileName(SeqNumber(me.highest_sequence, me.downloaded), id)
        goes == ~ReachedTotal(seen, me.expected_total) /\ HasNext(me.pos)
        after == [me EXCEPT !.session_seen_ids = seen,
                            !.pos = IF goes THEN NextPos(me.pos) ELSE me.pos,
                            !.pc = IF goes THEN "loop" ELSE "done"]
    IN
    /\ me.pc = "loop"
    /\ id \notin me.session_seen_ids
    /\ IF OnDisk(id, me.existing_images)
       THEN ctl' = [ctl EXCEPT !.proc[p] = after]
       ELSE \E outcome \in DownloadOutcomes \ {"interrupt"} :
              ctl' = [ctl EXCEPT
                        !.proc[p] =
                           [after EXCEPT !.downloaded =
                              IF outcome = "ok" THEN @ + 1 ELSE @],
                        !.disk = DiskAfterDownload(@, name, outcome),
                        !.written =
                           IF Opens(outcome)
                           THEN @ \cup {[proc |-> p, name |-> name]} ELSE @,
                        !.twice =
                           @ \/ (Opens(outcome)
                                 /\ [proc |-> p, name |-> name]
                                      \in ctl.written)]
    /\ UNCHANGED mainVars

NextPair ==
    \E p \in Procs :
      \/ PairScan(p)
      \/ PairDuplicate(p)
      \/ PairNew(p)

SpecPair == InitPair /\ [][NextPair]_vars

\* ======================================= the boxes the locator measures

\* How many elements a selector returns on the pages tried.
MaxImgs == 3

\* main, lines 312-313: the viewport of the browser is 1920 wide.
viewport_width == 1920

\* The widths and the left edges of the boxes tried.
Widths == {400, 401, 500, 501, 800}
LeftEdges == {410, 560, 710}

\* An element of a selector's result: what is_visible and bounding_box
\* answer ("throws" for an exception, "none" for no box), the box, and what
\* get_attribute('src') answers.
Element(vis, box, x, width, src) ==
    [vis |-> vis, box |-> box, x |-> x, width |-> width, src |-> src]

Unboxed ==
    { Element("no", "none", 0, 0, "ok"), Element("throws", "none", 0, 0, "ok"),
      Element("yes", "none", 0, 0, "ok"), Element("yes", "throws", 0, 0, "ok") }

\* The gallery images of the centering strategy, and the images of the
\* media host of the largest-visible strategy.
GalleryImgs ==
    Unboxed \cup { Element("yes", "ok", x, w, "ok") :
                   x \in LeftEdges, w \in Widths \ {400} }
MediaImgs ==
    Unboxed \cup { Element("yes", "ok", 0, w, s) :
                   w \in Widths, s \in {"ok", "none", "throws"} }

\* if img.is_visible(): box = img.bounding_box(); if box ...: both queries
\* answer and there is a box.
HasBox(e) == e.vis = "yes" /\ e.box = "ok"

\* abs(box['x'] + box['width'] / 2 - viewport_width / 2), doubled to stay
\* in the integers.
Distance2(e) ==
    LET d == 2 * e.x + e.width - viewport_width IN IF d < 0 THEN 0 - d ELSE d

\* A faulty variant of the centering loop: a later element at the same
\* distance takes the place of the earlier one.
nearest_center_last(imgs, k, best, min2) ==
    LET R[j \in 1 .. Len(imgs) + 1] ==
          IF j = 1 THEN << 0, 0 >>
          ELSE LET e == imgs[j - 1] b == R[j - 1] IN
               IF HasBox(e) /\ e.width > 500
                    /\ (b[1] = 0 \/ Distance2(e) <= b[2])
               THEN << j - 1, Distance2(e) >> ELSE b
    IN R[Len(imgs) + 1][1]

\* main, lines 315-330: best_img after the loop over the gallery images,
\* from element k on (best 0 is None, with min_distance infinite).
RECURSIVE nearest_center(_, _, _, _)
nearest_center(imgs, k, best, min2) ==
    IF k > Len(imgs) THEN best
    ELSE IF HasBox(imgs[k]) /\ imgs[k].width > 500
              /\ (best = 0 \/ Distance2(imgs[k]) < min2)
         THEN nearest_center(imgs, k + 1, k, Distance2(imgs[k]))
         ELSE nearest_center(imgs, k + 1, best, min2)

\* The address read from element k, given the address held before: the
\* element itself, nothing, or what was held when the read throws inside
\* the try block.
SrcRead(imgs, k, held) ==
    CASE imgs[k].src = "ok"     -> k
      [] imgs[k].src = "none"   -> 0
      [] imgs[k].src = "throws" -> held

\* homepage, lines 340-351: current_img and img_src after the loop over the
\* images of the media host; the address is read inside the loop.
RECURSIVE widest_homepage(_, _, _, _, _)
widest_homepage(imgs, k, max_width, img, src) ==
    IF k > Len(imgs) THEN [img |-> img, src |-> src, threw |-> FALSE]
    ELSE IF HasBox(imgs[k]) /\ imgs[k].width > max_width
              /\ imgs[k].width > 500
         THEN widest_homepage(imgs, k + 1, imgs[k].width, k,
                              SrcRead(imgs, k, src))
         ELSE widest_homepage(imgs, k + 1, max_width, img, src)

\* direct, lines 114-123: current_img after the loop.
RECURSIVE widest_direct(_, _, _, _)
widest_direct(imgs, k, max_width, img) ==
    IF k > Len(imgs) THEN img
    ELSE IF HasBox(imgs[k]) /\ imgs[k].width > max_width
              /\ imgs[k].width > 500
         THEN widest_direct(imgs, k + 1, imgs[k].width, k)
         ELSE widest_direct(imgs, k + 1, max_width, img)

\* interactive, lines 100-112: current_img after the loop; the threshold
\* of 400 is applied to the widest, at line 114.
RECURSIVE widest_interactive(_, _, _, _)
widest_interactive(imgs, k, max_width, img) ==
    IF k > Len(imgs)
    THEN IF img # 0 /\ max_width > 400 THEN img ELSE 0
    ELSE IF HasBox(imgs[k]) /\ imgs[k].width > max_width
         THEN widest_interactive(imgs, k + 1, imgs[k].width, k)
         ELSE widest_interactive(imgs, k + 1, max_width, img)

\* direct, line 129, and interactive, line 115: the address is read from
\* the selected element after the loop, outside the try block.
SrcAfter(imgs, img) ==
    IF img = 0 THEN [img |-> 0, src |-> 0, threw |-> FALSE]
    ELSE [img |-> img, src |-> SrcRead(imgs, img, 0),
          threw |-> imgs[img].src = "throws"]

\* One application of a strategy to the elements a selector returned.
GeoStart(strategy, script, imgs) ==
    [pc |-> "measure", strategy |-> strategy, script |-> script,
     imgs |-> imgs, img |-> 0, src |-> 0, threw |-> FALSE]

InitGeo ==
    /\ QuietMain
    /\ \E n \in 0 .. MaxImgs :
         \/ \E imgs \in ListsOf(GalleryImgs, n) :
              ctl = GeoStart("centered", "homepage", imgs)
         \/ \E imgs \in ListsOf(MediaImgs, n), v \in Variants :
              ctl = GeoStart("largest", v, imgs)

\* main, lines 305-335: the centering strategy and the read of the address
\* of the best element.
GeoCentered ==
    /\ ctl.pc = "measure"
    /\ ctl.strategy = "centered"
    /\ LET r == SrcAfter(ctl.imgs, nearest_center(ctl.imgs, 1, 0, 0)) IN
       ctl' = [ctl EXCEPT !.img = r.img, !.src = r.src, !.threw = r.threw,
                          !.pc = "measured"]
    /\ UNCHANGED mainVars

\* The largest-visible strategy of each script.
GeoLargest ==
    /\ ctl.pc = "measure"
    /\ ctl.strategy = "largest"
    /\ LET r == CASE ctl.script = "homepage" ->
                       widest_homepage(ctl.imgs, 1, 0, 0, 0)
                  [] ctl.script = "direct" ->
                       SrcAfter(ctl.imgs, widest_direct(ctl.imgs, 1, 0, 0))
                  [] ctl.script = "interactive" ->
                       SrcAfter(ctl.imgs,
                                widest_interactive(ctl.imgs, 1, 0, 0))
       IN ctl' = [ctl EXCEPT !.img = r.img, !.src = r.src,
                             !.threw = r.threw, !.pc = "measured"]
    /\ UNCHANGED mainVars

NextGeo ==
    \/ GeoCentered
    \/ GeoLargest

SpecGeo == InitGeo /\ [][NextGeo]_vars

\* ================================================================ properties

Homepage == variant = "homepage"

\* The files of a directory that were written to the end.
Completed(d) == { f \in d : f.complete }

\* The step just taken was an iteration of the loop.
IterationStep == i' = i + 1

\* ---------------------------------------------------------------------- C1
\* C1: in the homepage variant, over any sequence of runs against the same
\* output directory, the number of completed saves of a file carrying a
\* given id is at most 1.
C1_AtMostOnceSave == Homepage => \A id \in Ids : saves[id] <= 1

\* A second run finds on disk an id that the first run saved, and skips it.
C1_Witness ==
    /\ Homepage
    /\ run = 2
    /\ last.class = "disk"
    /\ saves[last.id] = 1
    /\ \E f \in Completed(diskAtStart) : f.id = last.id

\* ---------------------------------------------------------------------- C2
\* C2 as stated: after a second run of the homepage variant the directory
\* holds exactly the files the first run created.
C2_ExactlyFirstRunFiles ==
    (Homepage /\ run = 2 /\ pc = "done" /\ ended = "completed"
       /\ diskAtStart # {})
    => disk = diskAtStart

\* C2 amended: a second run of the homepage variant keeps every file of the
\* first run under the same name and with the same content, and adds no file
\* for an id that already has one; it may add files for ids that have none.
C2_RerunKeepsFiles ==
    (Homepage /\ run >= 2)
    => /\ diskAtStart \subseteq disk
       /\ \A f \in disk \ diskAtStart : f.id \notin ExistingIds(diskAtStart)

\* A second run has ended after adding the file of an id that had none,
\* next to the files of the first run.
C2_Witness ==
    /\ Homepage
    /\ run = 2
    /\ pc = "done"
    /\ ended = "completed"
    /\ diskAtStart # {}
    /\ disk \ diskAtStart # {}
    /\ \E id \in existing_images : fetches[id] = 0 /\ id \in session_seen_ids

\* ---------------------------------------------------------------------- C3
\* C3: in the homepage variant no sequence number is used for two files of
\* the output directory, and each file written carries a sequence number
\* above those of the files written before it.
C3_MonotonicSequence ==
    [][ Homepage =>
          /\ \A f \in disk' \ disk : \A g \in disk : g.seq < f.seq
          /\ \A f, g \in disk' : f.seq = g.seq => f = g ]_vars

\* ---------------------------------------------------------------------- C4
\* C4: an image whose download failed or was cut off is not in the on-disk
\* id set that the startup scan of the next run builds.
C4_FailedNotOnDisk ==
    (Homepage /\ run >= 2) => \A id \in failed : id \notin existing_images

\* ---------------------------------------------------------------------- C5
\* C5: for every file <prefix>_<seq>_<id>.<ext> in the directory at startup
\* the scan reports a high-water-mark of at least seq and reports id as on
\* disk; an id on disk is never fetched and gets no further file in the run;
\* the iteration that discovers it leaves the directory, the count of saved
\* files and the next sequence number as they were.
ScanDone == Homepage /\ pc \in {"warmup", "loop"}

C5_OnDiskNeverRefetched ==
    /\ [](ScanDone =>
            /\ \A f \in diskAtStart :
                 highest_sequence >= f.seq /\ f.id \in existing_images
            /\ \A id \in existing_images : fetches[id] = 0
            /\ \A f \in disk \ diskAtStart : f.id \notin existing_images)
    /\ [][ (Homepage /\ IterationStep /\ last'.class = "disk") =>
             /\ last'.id \in existing_images
             /\ disk' = disk
             /\ downloaded' = downloaded
             /\ fetches' = fetches
             /\ SeqNumber(highest_sequence', downloaded')
                  = SeqNumber(highest_sequence, downloaded) ]_vars

\* A run that started with a file of sequence number 1 or more has just
\* discovered the id of that file.
C5_Witness ==
    /\ Homepage
    /\ pc = "loop"
    /\ last.class = "disk"
    /\ highest_sequence >= 1
    /\ \E f \in diskAtStart : f.id = last.id /\ f.seq = highest_sequence

\* ---------------------------------------------------------------------- C6
\* C6: a run of the homepage variant on an empty directory, over a gallery
\* of N distinct photos opened at its first photo, where every navigation
\* action moves to the next photo and every locate, parse and download
\* succeeds, ends with exactly one saved file for each of the N photos.
C6_OneFilePerPhoto ==
    (Homepage /\ run = 1 /\ pc = "done" /\ ideal /\ badSrc = {}
       /\ numPhotos <= expected_total)
    => /\ { f.id : f \in Completed(disk) } = 1 .. numPhotos
       /\ \A id \in 1 .. numPhotos : saves[id] = 1
       /\ Cardinality(disk) = numPhotos

\* ---------------------------------------------------------------------- C7
\* C7: with thresholds 1 (homepage), 3 (direct) and 5 (interactive), the
\* loop never goes on with a streak of consecutive duplicates at the
\* threshold (not after), and it does not end at a duplicate below the
\* threshold while the next control is enabled, the activation succeeds
\* and the expected total is not reached (not before).
Threshold ==
    CASE variant = "homepage"    -> 1
      [] variant = "direct"      -> 3
      [] variant = "interactive" -> 5

DuplicateStep == IterationStep /\ last'.class = "dup"

C7_DuplicateStreak ==
    /\ [](pc = "loop" => consecutive_duplicates < Threshold)
    /\ [][ DuplicateStep =>
             /\ consecutive_duplicates' = consecutive_duplicates + 1
             /\ consecutive_duplicates' >= Threshold => pc' = "done"
             /\ (consecutive_duplicates' < Threshold
                   /\ last'.reason = "advanced") => pc' = "loop"
             /\ (consecutive_duplicates' < Threshold /\ pc' = "done")
                  => last'.reason \in {"missing", "hidden", "disabled",
                                       "unreachable"} ]_vars

\* The loop of the interactive variant has just ended on its fifth
\* duplicate in a row, without an advance.
C7_Witness ==
    /\ pc = "done"
    /\ last.class = "dup"
    /\ last.reason = "none"
    /\ variant = "interactive"
    /\ consecutive_duplicates = 5

\* ---------------------------------------------------------------------- C8
\* C8: when an iteration of the homepage variant finds the next control
\* disabled, the loop ends with that iteration, after the classification
\* (and the fetch of a new id), with no key press and no click dispatched;
\* go_to_next_image returns (False, "disabled").
C8_DisabledEndsLoop ==
    /\ [][ (Homepage /\ IterationStep /\ last'.arrow = "disabled") =>
             /\ pc' = "done"
             /\ pos' = pos
             /\ ~last'.dispatched
             /\ last'.class \in {"new", "disk", "dup"}
             /\ last'.class \in {"new", "disk"} => last'.reason = "disabled"
             /\ last'.class = "new" =>
                  fetches'[last'.id] = fetches[last'.id] + 1 ]_vars
    /\ [](\A e \in NavEnvs("enabled") :
            LET nav == Navigate("disabled", e) IN
            ~nav.moved /\ nav.reason = "disabled" /\ ~Dispatched(nav))

\* The loop of the homepage variant has ended on a new id that was saved,
\* with the next control disabled.
C8_Witness ==
    /\ Homepage
    /\ pc = "done"
    /\ last.class = "new"
    /\ last.dl = "ok"
    /\ last.arrow = "disabled"
    /\ last.reason = "disabled"

\* ---------------------------------------------------------------------- C9
\* C9: when no next control is found, the advance of the homepage and of
\* the direct variant dispatches an ArrowRight press rather than stopping
\* the traversal for want of a control.
C9_KeyboardFallback ==
    (variant \in {"homepage", "direct"} /\ last.arrow = "missing"
       /\ last.class \in {"new", "disk"})
    => (last.dispatched /\ last.reason # "missing")

\* --------------------------------------------------------------------- C10
\* C10: with an enabled next control, go_to_next_image tries the key press
\* first, then a direct click only if the key press threw, then a scripted
\* click only if the direct click threw; it stops at the first method that
\* does not throw, reports that method as keyboard, button or script, and
\* reports unreachable only when all three threw; a failure to focus the
\* gallery does not prevent the key press.
MethodOrder == << "key", "click", "script" >>

FetchFailed == last.class = "new" /\ last.dl \in {"http_error", "cut"}

Usable(c) == c.kind \in {"good", "small"}
IsMeasured(c) == c.kind \in Measured
Indexes(imgs, P(_)) == { k \in 1 .. Len(imgs) : P(imgs[k]) }
SetMin(S) == CHOOSE m \in S : \A x \in S : m <= x

\* The candidate nearest to the centre, the first of them on a tie.
Nearest(imgs) ==
    LET M == Indexes(imgs, IsMeasured) IN
    SetMin({ k \in M : \A j \in M : imgs[k].size <= imgs[j].size })

Located == ctl.pc \in {"decide", "found", "notfound"}

C12_StrategyOrder ==
    ctl.pc \in {"active", "centered", "largest", "decide", "found",
                "notfound", "error"} =>
      LET pg == ctl.page
          A == Indexes(pg.active, Usable)
          G == Indexes(pg.gallery, IsMeasured)
          order == << "active", "centered", "largest" >>
      IN /\ Len(ctl.consulted) <= 3
         /\ \A k \in 1 .. Len(ctl.consulted) : ctl.consulted[k] = order[k]
         /\ Len(ctl.consulted) >= 2 => A = {}
         /\ Len(ctl.consulted) >= 3 => (A = {} /\ G = {})
         /\ (Located /\ A # {}) =>
              /\ ctl.current_img = Img("active", SetMin(A))
              /\ ctl.img_src = ctl.current_img
              /\ ctl.pc # "notfound"
         /\ (Located /\ A = {} /\ G # {}
               /\ pg.gallery[Nearest(pg.gallery)].kind = "good") =>
              /\ ctl.current_img = Img("centered", Nearest(pg.gallery))
              /\ ctl.img_src = ctl.current_img
              /\ ctl.pc # "notfound"
         /\ ctl.pc = "found" => ctl.img_src # NoImg

\* The active marker strategy skipped its candidate, the centering strategy
\* provided the image, and the largest-visible strategy, which had an image
\* to offer, was not consulted.
C12_Witness ==
    /\ ctl.pc = "found"
    /\ ctl.consulted = << "active", "centered" >>
    /\ ctl.current_img.strategy = "centered"
    /\ Len(ctl.page.active) = 1
    /\ \E k \in 1 .. Len(ctl.page.media) : ctl.page.media[k].kind = "good"

\* --------------------------------------------------------------------- C13
\* C13: a candidate without a retrievable address, or whose query throws,
\* is skipped and the search goes on: while a selector returns an image
\* that is visible, large enough and has an address, a locate ends neither
\* without an image nor with an exception.
HasGood(imgs) == \E k \in 1 .. Len(imgs) : imgs[k].kind = "good"

C13_BadCandidateSkipped ==
    ctl.pc \in {"notfound", "error"} =>
      ~(HasGood(ctl.page.active) \/ HasGood(ctl.page.gallery)
          \/ HasGood(ctl.page.media))

\* --------------------------------------------------------------------- C14
\* C14: when no strategy finds an active image, the loop of the homepage
\* and of the direct variant ends with that iteration, which fetches
\* nothing, dispatches no advance and leaves the directory as it is; the
\* run ends as completed, not as failed.
C14_ExhaustionIsCleanEnd ==
    [][ (variant \in {"homepage", "direct"} /\ IterationStep
           /\ last'.class = "noimage") =>
          /\ pc' = "done"
          /\ ended' = "completed"
          /\ disk' = disk
          /\ fetches' = fetches
          /\ downloaded' = downloaded
          /\ pos' = pos
          /\ ~last'.dispatched
          /\ last'.reason = "none" ]_vars

\* A run of the homepage variant that had saved a file has ended on an
\* iteration that found no image.
C14_Witness ==
    /\ Homepage
    /\ pc = "done"
    /\ ended = "completed"
    /\ last.class = "noimage"
    /\ downloaded >= 1
    /\ Completed(disk) # {}

\* --------------------------------------------------------------------- C15
\* C15: an iteration of the homepage or of the direct variant that meets an
\* address it cannot parse saves nothing, leaves the session-seen set and
\* the duplicate counter as they are, and performs the advance, so that
\* the next iteration looks at the next photo.
C15_UnparsedStepAdvances ==
    [][ (variant \in {"homepage", "direct"} /\ IterationStep
           /\ last'.class = "unparsed") =>
          /\ disk' = disk
          /\ downloaded' = downloaded
          /\ session_seen_ids' = session_seen_ids
          /\ consecutive_duplicates' = consecutive_duplicates
          /\ last'.reason # "none" ]_vars

\* C16: in the homepage variant the loop is never at the top of an iteration
\* with as many distinct ids seen as the expected total; when the set has
\* reached the total, the loop has ended in the step that classified the
\* last new id, and that step called no advance.
C16_TotalEndsLoop ==
    (Homepage /\ run >= 1) =>
      /\ pc \in {"warmup", "loop"}
           => Cardinality(session_seen_ids) < expected_total
      /\ Cardinality(session_seen_ids) >= expected_total
           => /\ pc = "done"
              /\ last.class \in {"new", "disk"}
              /\ last.id \in session_seen_ids
              /\ ~last.dispatched
              /\ last.reason = "none"

\* A homepage run that ended because its third distinct id brought the set
\* to the total of the metadata.
C16_Witness ==
    /\ Homepage
    /\ pc = "done"
    /\ ended = "completed"
    /\ expected_total = numPhotos
    /\ Cardinality(session_seen_ids) = expected_total
    /\ expected_total >= 3
    /\ last.class = "new"
    /\ last.dl = "ok"

\* The characters of a name after its last dot.
RECURSIVE AfterLastDot(_)
AfterLastDot(name) ==
    IF name = << >> \/ name[Len(name)] = "." THEN << >>
    ELSE Append(AfterLastDot(SubSeq(name, 1, Len(name) - 1)), name[Len(name)])

\* C17: the file name built from a sequence number, an id and an extension
\* is read back by the scan as that sequence number and that id, under a
\* path that ends in that extension, for sequence numbers of any number of
\* digits.
C17_NameRoundTrip ==
    ctl.pc = "scanned" =>
      /\ ctl.highest_seq = ctl.seq
      /\ ctl.existing = { [img_id |-> ctl.img_id, file_path |-> ctl.name] }
      /\ id_pattern_match(ctl.name).seq = ctl.seq
      /\ AfterLastDot(ctl.name) = ctl.ext

\* A name with a sequence number of more than three digits, an id that
\* starts with a digit and the longest extension was scanned next to a
\* stray file.
C17_Witness ==
    /\ ctl.pc = "scanned"
    /\ ctl.seq > 999
    /\ Len(ctl.img_id) = MaxIdLen
    /\ IsDigit(ctl.img_id[1])
    /\ Len(ctl.ext) = 4
    /\ ctl.stray # {}
    /\ ctl.highest_seq = ctl.seq

\* C18: an iteration that parsed the id of the photo on display classifies
\* it by the set of the session: an id in the set is a duplicate, the
\* counter of consecutive duplicates goes up by one and the set stays; any
\* other id sets the counter to zero and joins the set.  Within a run no
\* step takes an id out of the set.
C18_Classification ==
    [][ /\ (IterationStep /\ last'.class \in {"dup", "new", "disk"}) =>
             /\ last'.id = pos
             /\ pos \in session_seen_ids =>
                  /\ last'.class = "dup"
                  /\ consecutive_duplicates' = consecutive_duplicates + 1
                  /\ session_seen_ids' = session_seen_ids
             /\ pos \notin session_seen_ids =>
                  /\ last'.class \in {"new", "disk"}
                  /\ consecutive_duplicates' = 0
                  /\ session_seen_ids' = session_seen_ids \cup {pos}
        /\ run' = run => session_seen_ids \subseteq session_seen_ids' ]_vars

\* A run of the direct variant met a new id after a duplicate: the counter
\* is back at zero and the set holds the id.
C18_Witness ==
    /\ variant = "direct"
    /\ last.class = "new"
    /\ consecutive_duplicates = 0
    /\ last.id \in session_seen_ids
    /\ Cardinality(session_seen_ids) >= 2
    /\ i > Cardinality(session_seen_ids)
    /\ badSrc = {}

\* What the page says of a control.  Absent: the selector finds nothing.
\* Hidden: no box, a box without size, invisible, marked hidden by its
\* computed style, or with an inner button marked hidden.  Unseen: the
\* query for its box or its visibility throws.
Absent(c) == c.query # "found"
Hidden(c) ==
    /\ c.query = "found"
    /\ \/ c.box \in {"none", "zero"}
       \/ ~c.visible
       \/ ~c.eval.threw /\ c.eval.hidden
       \/ c.inner.query = "found" /\ ~c.inner.eval.threw
            /\ c.inner.eval.hidden
Unseen(c) == c.query = "found" /\ c.box = "throws"
Passed(c) == Absent(c) \/ Hidden(c) \/ Unseen(c)

\* C19: get_next_arrow_state returns the status of the first control that
\* is neither absent nor hidden: every hidden control before it was passed
\* over, "disabled" is the answer only for a control that is not hidden
\* and that the page marks disabled, and "missing" is the answer only when
\* no selector has such a control.
C19_HiddenIsSkipped ==
    ctl.pc = "return" =>
      /\ ctl.status \in {"enabled", "disabled", "missing"}
      /\ ctl.status = "missing" <=>
           \A j \in 1 .. NumSelectors : Passed(ctl.sels[j])
      /\ ctl.status # "missing" =>
           /\ ctl.arrow \in 1 .. NumSelectors
           /\ ~Passed(ctl.sels[ctl.arrow])
           /\ \A j \in 1 .. ctl.arrow - 1 : Passed(ctl.sels[j])
      /\ ctl.status = "disabled" =>
           /\ ~Hidden(ctl.sels[ctl.arrow])
           /\ \/ ctl.sels[ctl.arrow].eval.disabled
              \/ ctl.sels[ctl.arrow].inner.eval.disabled

\* A control that is marked disabled and has a hidden inner button was
\* passed over, and the answer is that of a later selector.
C19_Witness ==
    /\ ctl.pc = "return"
    /\ ctl.status = "enabled"
    /\ ctl.arrow > 1
    /\ \E j \in 1 .. ctl.arrow - 1 :
         LET c == ctl.sels[j] IN
         /\ arrow_measured(c)
         /\ ~c.eval.threw /\ ~c.eval.hidden /\ c.eval.disabled
         /\ c.inner.query = "found" /\ ~c.inner.eval.threw
         /\ c.inner.eval.hidden

\* C20: a run that the operator interrupted at any point after the launch
\* of the browser has called browser.close() when the process exits.
C20_InterruptReachesClose ==
    (ctl.pc = "exit" /\ ctl.interrupts >= 1) => ctl.browser = "closed"

\* ---------------------------------------------------------------------- C21
\* C21: of two runs of the homepage script on the same output directory,
\* one after the other or interleaved, no two saves open the same file
\* name: no run opens a name twice, and no name is opened by both runs.
C21_NoNameWrittenTwice ==
    /\ ~ctl.twice
    /\ \A x \in ctl.written : \A y \in ctl.written :
         x.name = y.name => x.proc = y.proc

\* ---------------------------------------------------------------------- C22
\* C22: during and after a run of the homepage variant every file that was
\* in the output directory when the run started is still there, no file of
\* the directory has taken its name, and nothing was fetched under its id,
\* however the run goes on or ends.
C22_LedgerOnlyAppends ==
    (Homepage /\ run >= 1) =>
      \A f \in diskAtStart :
        /\ f \in disk
        /\ \A g \in disk : NameOf(g) = NameOf(f) => g = f
        /\ fetches[f.id] = 0

\* A second run found files, added a file, met a failed download or an
\* advance that did not go through, and has ended.
C22_Witness ==
    /\ Homepage
    /\ run = 2
    /\ pc = "done"
    /\ diskAtStart # {}
    /\ disk # diskAtStart
    /\ faults >= 1
    /\ \/ ended = "interrupted"
       \/ last.reason \in {"unreachable", "disabled", "missing"}
       \/ last.dl \in {"http_error", "cut"}

\* ---------------------------------------------------------------------- C23
\* C23: the homepage process exits with status 0 when its run completed or
\* was stopped early, and with another status when the startup failed: the
\* launch, or the first navigation.
C23_ExitCodes ==
    (ctl.pc = "exit" /\ ctl.script = "homepage") =>
      IF ctl.cause \in {"launch", "navigation"} THEN ctl.code # 0
      ELSE ctl.code = 0

\* ---------------------------------------------------------------------- C24
\* C24: the centering strategy selects, among the gallery images that are
\* visible and wider than 500, the one whose horizontal centre is nearest
\* to 960, the first of them on a tie, and none when there is no such image.
Wide(imgs, min) ==
    { k \in 1 .. Len(imgs) : HasBox(imgs[k]) /\ imgs[k].width > min }

FromCentre2(e) ==
    IF 2 * e.x + e.width >= 1920 THEN 2 * e.x + e.width - 1920
    ELSE 1920 - (2 * e.x + e.width)

C24_NearestToCentre ==
    (ctl.pc = "measured" /\ ctl.strategy = "centered") =>
      LET E == Wide(ctl.imgs, 500) IN
      IF E = {} THEN ctl.img = 0
      ELSE /\ ctl.img \in E
           /\ \A j \in E :
                FromCentre2(ctl.imgs[ctl.img]) <= FromCentre2(ctl.imgs[j])
           /\ \A j \in E :
                FromCentre2(ctl.imgs[j]) = FromCentre2(ctl.imgs[ctl.img])
                  => ctl.img <= j

\* The second of three gallery images was selected: the first is wide
\* enough and farther from the centre, the third is as near as the second.
C24_Witness ==
    /\ ctl.pc = "measured"
    /\ ctl.strategy = "centered"
    /\ Len(ctl.imgs) = 3
    /\ ctl.img = 2
    /\ Wide(ctl.imgs, 500) = {1, 2, 3}
    /\ FromCentre2(ctl.imgs[1]) > FromCentre2(ctl.imgs[2])
    /\ FromCentre2(ctl.imgs[3]) = FromCentre2(ctl.imgs[2])
    /\ ctl.imgs[3] # ctl.imgs[2]

\* ---------------------------------------------------------------------- C25
\* C25: the largest-visible strategy selects, among the images of the media
\* host, the widest visible one above the threshold of the script (500,
\* and 400 in the interactive script), the first of them on a tie, and none
\* when no visible image is above the threshold; the address it hands on
\* is the address of the image it selected.
MinWidth(script) == IF script = "interactive" THEN 400 ELSE 500

C25_WidestWithItsAddress ==
    (ctl.pc = "measured" /\ ctl.strategy = "largest") =>
      LET E == Wide(ctl.imgs, MinWidth(ctl.script)) IN
      /\ IF E = {} THEN ctl.img = 0
         ELSE /\ ctl.img \in E
              /\ \A j \in E : ctl.imgs[j].width <= ctl.imgs[ctl.img].width
              /\ \A j \in E : ctl.imgs[j].width = ctl.imgs[ctl.img].width
                                => ctl.img <= j
      /\ ctl.src # 0 => ctl.src = ctl.img

C27_SeenAndSavedBounded ==
    (Homepage /\ run >= 1 /\ expected_total >= 1) =>
      /\ Cardinality(session_seen_ids) <= expected_total
      /\ downloaded <= Cardinality(session_seen_ids)
      /\ downloaded >= 0

\* The metadata understates the gallery: the set has filled up to the
\* expected total while more photos remain, and one of the seen ids was
\* not saved in this run.
C27_Witness ==
    /\ Homepage
    /\ pc = "done"
    /\ expected_total >= 2
    /\ expected_total < numPhotos
    /\ Cardinality(session_seen_ids) = expected_total
    /\ downloaded >= 1
    /\ downloaded < Cardinality(session_seen_ids)

\* ---------------------------------------------------------------------- C28
\* C28: in the homepage variant (MAX_DUPLICATE_STREAK = 1) an iteration
\* that classifies its id as a duplicate of the session ends the loop: the
\* counter of consecutive duplicates never exceeds 1, and after a
\* duplicate classification go_to_next_image is not called, so no key
\* press and no click is dispatched and the position is the one of the
\* duplicate.
C28_DuplicateEndsHomepageLoop ==
    Homepage =>
      /\ consecutive_duplicates <= 1
      /\ pc = "loop" => consecutive_duplicates = 0
      /\ last.class = "dup" =>
           /\ pc = "done"
           /\ consecutive_duplicates = 1
           /\ last.reason = "none"
           /\ ~last.dispatched
           /\ pos = last.id

\* The loop has ended on a duplicate while the next control was enabled
\* and fewer ids than the expected total had been seen: only the streak
\* limit ended it.
C28_Witness ==
    /\ Homepage
    /\ pc = "done"
    /\ last.class = "dup"
    /\ last.arrow = "enabled"
    /\ consecutive_duplicates = 1
    /\ Cardinality(session_seen_ids) < expected_total
    /\ Cardinality(session_seen_ids) >= 2

\* ---------------------------------------------------------------------- C29
\* C29: within one run of the homepage, direct or interactive variant a
\* fetch is attempted at most once for each image identity, and an
\* identity whose fetch was attempted is in the set of the run from the
\* moment of the attempt on, whatever the outcome of the download: a
\* failed download is not retried and a later sighting does not fetch.
C29_OneFetchPerIdentity ==
    run >= 1 =>
      /\ \A id \in Ids :
           /\ fetches[id] <= 1
           /\ fetches[id] = 1 => id \in session_seen_ids
      /\ last.class = "dup" =>
           /\ last.dl = "none"
           /\ last.id \in session_seen_ids
      /\ last.class = "new" =>
           /\ fetches[last.id] = 1
           /\ last.id \in session_seen_ids

\* The download of a photo failed earlier in the first run, the gallery
\* has come back to that photo, and the step classified it as a duplicate
\* without a second fetch.
C29_Witness ==
    /\ run = 1
    /\ variant \in {"direct", "interactive"}
    /\ last.class = "dup"
    /\ last.id \in failed
    /\ fetches[last.id] = 1
    /\ saves[last.id] = 0

\* ---------------------------------------------------------------------- C30
\* C30: in the interactive variant every iteration that finds no large
\* image or no src adds one to the no-image counter, takes no navigation
\* action and leaves the gallery where it is; it ends the loop exactly
\* when the counter reaches 3 and is otherwise followed by the next
\* iteration.  Only an iteration that records a new image sets the
\* counter back to zero; duplicates and unparsed addresses leave it as it
\* is.  So the loop stops for lack of an image only at the third such
\* iteration since the last new image.
C30_ThirdNoImageStops ==
    /\ [](variant = "interactive" =>
            /\ no_image_count <= NoImageLimit
            /\ pc = "loop" => no_image_count < NoImageLimit)
    /\ [][ (variant = "interactive" /\ IterationStep) =>
             /\ last'.class = "noimage" =>
                  /\ no_image_count' = no_image_count + 1
                  /\ last'.reason = "none"
                  /\ ~last'.dispatched
                  /\ pos' = pos
                  /\ pc' = IF no_image_count' = NoImageLimit
                           THEN "done" ELSE "loop"
             /\ last'.class = "new" => no_image_count' = 0
             /\ last'.class \in {"dup", "unparsed"} =>
                  no_image_count' = no_image_count ]_vars

\* The loop has just ended on its third iteration without an image since
\* the last new image, in a run that has recorded an image and has seen a
\* duplicate since.
C30_Witness ==
    /\ variant = "interactive"
    /\ pc = "done"
    /\ last.class = "noimage"
    /\ no_image_count = NoImageLimit
    /\ consecutive_duplicates >= 1
    /\ Cardinality(session_seen_ids) >= 1

====
